---- MODULE Spec2Model ----
(***************************************************************************)
(* A state-machine model of the nokotan chat bot core: the command         *)
(* dispatcher (core/commands.py), the history and correction ledger, the   *)
(* presence reconciler and the plugin fan-out (core/xmpp.py) over the      *)
(* key/field store (core/sql.py).                                          *)
(*                                                                         *)
(* Time is counted in ticks, Res ticks to the second, so that time.time()  *)
(* (a float) and int(time.time()) (whole seconds) are both represented.    *)
(* Python's None is the string value None below; text stored by the        *)
(* key/field store is a TLA+ string (str(value) of sql.set), except JSON   *)
(* text, which is the sequence of the members of the JSON object.          *)
(***************************************************************************)
EXTENDS Integers, Sequences, FiniteSets, TLC

VARIABLES
    now,            \* time.time(), in ticks
    show_command_suggestion,   \* CommandHandler.show_command_suggestion
    run_command_suggestion,    \* CommandHandler.run_command_suggestion
    last_used,      \* Command.last_used of every command: name -> (user -> tick)
    disp,           \* what the last dispatch call did (observation)
    exec_at,        \* observation: (command, user) -> tick of the last handler run
    chat_history,   \* table bot_chat_history: <<key, field>> -> text
    ledger,         \* what the last ledger operation did (observation)
    user_states,    \* Bot.user_states, the in-memory mirror
    user_db,        \* table bot_user_states: <<key, field>> -> text
    pres,           \* what the last presence event did (observation)
    fan,            \* what the last plugin fan-out did (observation)
    running,        \* the bot process is up
    po_db,          \* table post_office: <<key, field>> -> text
    po_tasks,       \* the scheduled tasks PostOffice._add_reminder created
    po_boot,        \* the reminders PostOffice._schedule_reminders has yet to await
    po_obs,         \* what the post office did so far (observation)
    _tasks,          \* BasePlugin._tasks of every plugin: name -> set of tasks
    down,           \* the position of Bot._shutdown_or_restart, and its log
    query,          \* what the last SQLHandler.get_ordered_by did (observation)
    aio,            \* the event loop's view of one plugin's background tasks
    kv,             \* tables of the key/field store as sets of rows, and the last call
    llm             \* the two LLM backends' parameters and the calls in flight

vars == <<now, show_command_suggestion, run_command_suggestion, last_used, disp,
          exec_at, chat_history, ledger, user_states, user_db, pres, fan,
          running, po_db, po_tasks, po_boot, po_obs, _tasks, down, query,
          aio, kv, llm>>

cmd_vars == <<last_used, disp, exec_at>>
cfg_vars == <<show_command_suggestion, run_command_suggestion>>
ledger_vars == <<chat_history, ledger>>
pres_vars == <<user_states, user_db, pres>>
life_vars == <<_tasks, down>>
po_vars == <<po_db, po_tasks, po_boot, po_obs>>
plug_vars == <<running, po_vars, life_vars>>

-----------------------------------------------------------------------------
(* Bounds of the model *)

\* ticks per second
Res == 2
\* how many ticks the clock may advance after start
MaxElapsed == 4

\* Python's None
None == "<None>"

\* Python truthiness of an optional string
Truthy(v) == v # None /\ v # ""

-----------------------------------------------------------------------------
(* Configuration: the rooms, the roster and the admins *)

Lobby == "lobby@muc"
Quiet == "quiet@muc"
Mute == "mute@muc"

admins == {"bob@x.org"}

\* Bot.mucs: per-room configuration; a key that is absent is not in the DOMAIN
mucs == [r \in {Lobby, Quiet, Mute} |->
           IF r = Lobby
           THEN [nick |-> "Nokotan"]
           ELSE IF r = Mute
           THEN [nick |-> "Nokotan", disabled_plugins |-> {"stats_plugin"}]
           ELSE [nick |-> "Nokotan",
                 disabled_commands |-> {"help"},
                 disabled_plugins |-> {"debug_plugin"},
                 whitelist_plugins |-> {"default_plugin", "debug_plugin"}]]

\* self.mucs.get(muc, {}).get(key, default)
MucGet(muc, key, default) ==
    IF muc \in DOMAIN mucs /\ key \in DOMAIN mucs[muc] THEN mucs[muc][key] ELSE default

joined_mucs == {Lobby, Quiet, Mute}

\* the transport's roster: nick -> full JID of the occupant
Roster == [r \in {Lobby, Quiet, Mute} |->
             [n \in {"alice", "bob"} |->
                 IF n = "alice" THEN "alice@x.org" ELSE "bob@x.org"]]

get_jid_from_nick(muc, nick) ==
    IF muc \in DOMAIN Roster /\ nick \in DOMAIN Roster[muc]
    THEN Roster[muc][nick] ELSE None

-----------------------------------------------------------------------------
(* The command registry, in registration order *)

default_command_cooldown == 2

Registry == <<
    [name |-> "help",    plugin |-> "default_plugin", category |-> None,
     aliases |-> {"h"},  cooldown |-> default_command_cooldown, admin |-> FALSE],
    [name |-> "status",  plugin |-> "stats_plugin",   category |-> "info",
     aliases |-> {"st"}, cooldown |-> 2, admin |-> FALSE],
    [name |-> "stats",   plugin |-> "stats_plugin",   category |-> "info",
     aliases |-> {},     cooldown |-> 1, admin |-> FALSE],
    [name |-> "restart", plugin |-> "default_plugin", category |-> "admin",
     aliases |-> {"reboot"}, cooldown |-> default_command_cooldown, admin |-> TRUE],
    [name |-> "corporate_speak", plugin |-> "transform", category |-> "transform",
     aliases |-> {},     cooldown |-> 30, admin |-> FALSE] >>

CommandNames == {Registry[i].name : i \in 1..Len(Registry)}

\* CommandHandler.commands[name]
Cmd(name) == Registry[CHOOSE i \in 1..Len(Registry) : Registry[i].name = name]

\* the cooldown of a command in ticks
CooldownTicks(name) == Cmd(name).cooldown * Res

\* CommandHandler.categories[category]: the names of the commands of a category
categories(category) ==
    {Registry[i].name : i \in {k \in 1..Len(Registry) : Registry[k].category = category}}

\* the longest cooldown of a registered command
LongestCooldown ==
    CHOOSE c \in {Registry[i].cooldown : i \in 1..Len(Registry)} :
        \A i \in 1..Len(Registry) : Registry[i].cooldown <= c

\* time.time() at the start: the epoch is far beyond every cooldown
StartTime == 2 * Res * LongestCooldown

\* the characters of the tokens the model uses
Chars(token) ==
    CASE token = "help"    -> <<"h","e","l","p">>
      [] token = "status"  -> <<"s","t","a","t","u","s">>
      [] token = "stats"   -> <<"s","t","a","t","s">>
      [] token = "restart" -> <<"r","e","s","t","a","r","t">>
      [] token = "h"       -> <<"h">>
      [] token = "st"      -> <<"s","t">>
      [] token = "reboot"  -> <<"r","e","b","o","o","t">>
      [] token = "statu"   -> <<"s","t","a","t","u">>
      [] token = "hlep"    -> <<"h","l","e","p">>
      [] token = "restrt"  -> <<"r","e","s","t","r","t">>
      [] token = "zzzzzz"  -> <<"z","z","z","z","z","z">>
      [] token = "corporate_speak" ->
            <<"c","o","r","p","o","r","a","t","e","_","s","p","e","a","k">>
      [] token = "corporate_speek" ->
            <<"c","o","r","p","o","r","a","t","e","_","s","p","e","e","k">>
      [] token = "corporate_speakk" ->
            <<"c","o","r","p","o","r","a","t","e","_","s","p","e","a","k","k">>
      [] OTHER             -> <<>>

-----------------------------------------------------------------------------
(* Sending (Bot.send_message_processed) *)

\* Bot._process_mbody_before_sending returns None: the addressee is a joined
\* room in silent mode
silenced(mto) == mto \in joined_mucs /\ MucGet(mto, "silent_mode", FALSE)

\* Bot.send_message_processed(mto=..., mbody=..., mtype=...): the outbox after it
send_message_processed(outbox, mto, mbody, mtype) ==
    IF silenced(mto) THEN outbox
    ELSE Append(outbox, [to |-> mto, body |-> mbody, type |-> mtype])

-----------------------------------------------------------------------------
(* Command.call (core/commands.py) *)

\* user = f"{muc}/{nick}" if muc else jid
UserKey(muc, nick, jid) == IF Truthy(muc) THEN muc \o "/" \o nick ELSE jid

\* self.last_used.get(user, 0)
LastUsedGet(lu, name, user) ==
    IF user \in DOMAIN lu[name] THEN lu[name][user] ELSE 0

\* the loop over the commands of the category, in registration order; acc is
\* [last_used_time, category_cooldown]
RECURSIVE category_scan(_, _, _, _, _)
category_scan(lu, category, user, i, acc) ==
    IF i > Len(Registry) THEN acc
    ELSE IF Registry[i].category # category
         THEN category_scan(lu, category, user, i + 1, acc)
         ELSE LET last_used_in_category == LastUsedGet(lu, Registry[i].name, user)
              IN  IF last_used_in_category # 0
                     /\ last_used_in_category > acc.last_used_time
                  THEN category_scan(lu, category, user, i + 1,
                         [last_used_time |-> last_used_in_category,
                          category_cooldown |-> TRUE])
                  ELSE category_scan(lu, category, user, i + 1, acc)

\* an effective last-used time that leaves the category's commands out
EffectiveLastUsed_own(lu, name, user) ==
    [last_used_time |-> LastUsedGet(lu, name, user), category_cooldown |-> FALSE]

\* the effective last-used time of a command for a user
EffectiveLastUsed(lu, name, user) ==
    LET own == [last_used_time |-> LastUsedGet(lu, name, user),
                category_cooldown |-> FALSE]
    IN  IF Truthy(Cmd(name).category)
        THEN category_scan(lu, Cmd(name).category, user, 1, own)
        ELSE own

\* a cooldown test that is off by one tick
OnCooldown_short(current_time, last_used_time, cooldown) ==
    current_time - last_used_time + 1 < cooldown

\* if current_time - last_used_time < self.cooldown
OnCooldown(current_time, last_used_time, cooldown) ==
    current_time - last_used_time < cooldown

\* a remaining time rounded up to whole seconds
Remaining_ceiling(ticks) == (ticks + Res - 1) \div Res

\* int(self.cooldown - (current_time - last_used_time)), the argument in ticks
Remaining(ticks) == ticks \div Res

\* Command.cooldown_message: the notice and its addressee
cooldown_message(outbox, remaining, command_name, user, category_cooldown) ==
    send_message_processed(outbox, user,
        [kind |-> "cooldown", category_cooldown |-> category_cooldown,
         command |-> command_name, seconds |-> remaining + 1],
        "chat")

\* a write that stamps every command of the category of the command
Stamp_category(lu, name, user, current_time) ==
    [n \in DOMAIN lu |->
        IF n = name \/ (Truthy(Cmd(name).category) /\ Cmd(n).category = Cmd(name).category)
        THEN [u \in DOMAIN lu[n] \cup {user} |->
                 IF u = user THEN current_time ELSE lu[n][u]]
        ELSE lu[n]]

\* self.last_used[user] = current_time, on the command called
Stamp(lu, name, user, current_time) ==
    [lu EXCEPT ![name] = [u \in DOMAIN lu[name] \cup {user} |->
                            IF u = user THEN current_time ELSE lu[name][u]]]

\* Command.call: raises says whether the handler function raises
call(lu, name, muc, nick, jid, current_time, raises) ==
    LET user == UserKey(muc, nick, jid)
        eff  == EffectiveLastUsed(lu, name, user)
    IN  IF OnCooldown(current_time, eff.last_used_time, CooldownTicks(name))
        THEN [last_used |-> lu,
              sent |-> cooldown_message(<<>>,
                          Remaining(CooldownTicks(name)
                                    - (current_time - eff.last_used_time)),
                          name, user, eff.category_cooldown),
              executed |-> FALSE, raised |-> FALSE, cooldown_rejected |-> TRUE]
        ELSE [last_used |-> Stamp(lu, name, user, current_time),
              sent |-> <<>>,
              executed |-> TRUE, raised |-> raises, cooldown_rejected |-> FALSE]

-----------------------------------------------------------------------------
(* CommandHandler (core/commands.py) *)

Min3(a, b, c) ==
    IF a <= b /\ a <= c THEN a ELSE IF b <= c THEN b ELSE c

\* the inner loop of levenshtein_distance: completes current_row
RECURSIVE lev_row(_, _, _, _)
lev_row(c1, s2, previous_row, current_row) ==
    LET j == Len(current_row) IN
    IF j > Len(s2) THEN current_row
    ELSE LET insertions == previous_row[j + 1] + 1
             deletions == current_row[j] + 1
             substitutions == previous_row[j] + (IF c1 # s2[j] THEN 1 ELSE 0)
         IN  lev_row(c1, s2, previous_row,
                     Append(current_row, Min3(insertions, deletions, substitutions)))

\* the outer loop of levenshtein_distance over the characters of s1; a row
\* is complete (and never empty) before the next character is taken
RECURSIVE lev_rows(_, _, _, _)
lev_rows(s1, s2, i, previous_row) ==
    IF Len(previous_row) = 0 \/ i > Len(s1) THEN previous_row[Len(previous_row)]
    ELSE lev_rows(s1, s2, i + 1, lev_row(s1[i], s2, previous_row, <<i>>))

\* CommandHandler.levenshtein_distance on character sequences
levenshtein_distance(s1, s2) ==
    LET a == IF Len(s1) < Len(s2) THEN s2 ELSE s1
        b == IF Len(s1) < Len(s2) THEN s1 ELSE s2
    IN  IF Len(b) = 0 THEN Len(a)
        ELSE lev_rows(a, b, 1, [k \in 1..(Len(b) + 1) |-> k - 1])

\* float('inf')
Inf == 1000000

\* a scan that keeps the last of the nearest commands instead of the first
RECURSIVE best_scan_last(_, _, _, _)
best_scan_last(cmd_name, is_admin, i, acc) ==
    IF i > Len(Registry) THEN acc
    ELSE LET is_admin_cmd == Registry[i].admin
             distance == levenshtein_distance(Chars(cmd_name), Chars(Registry[i].name))
         IN  IF ((is_admin_cmd /\ is_admin) \/ ~is_admin_cmd)
                /\ distance <= acc.min_distance
             THEN best_scan_last(cmd_name, is_admin, i + 1,
                                 [best_suggestion |-> Registry[i].name,
                                  min_distance |-> distance])
             ELSE best_scan_last(cmd_name, is_admin, i + 1, acc)

\* a filter that lets every command be suggested to anybody
MaySuggest_any(is_admin_cmd, is_admin) == TRUE

\* the filter of the suggestion loop:
\* if (is_admin_cmd and is_admin) or not is_admin_cmd
MaySuggest(is_admin_cmd, is_admin) == (is_admin_cmd /\ is_admin) \/ ~is_admin_cmd

\* the loop of _send_suggested_command over self.commands; acc is
\* [best_suggestion, min_distance]
RECURSIVE best_scan(_, _, _, _)
best_scan(cmd_name, is_admin, i, acc) ==
    IF i > Len(Registry) THEN acc
    ELSE LET is_admin_cmd == Registry[i].admin
             distance == levenshtein_distance(Chars(cmd_name), Chars(Registry[i].name))
         IN  IF MaySuggest(is_admin_cmd, is_admin)
                /\ distance < acc.min_distance
             THEN best_scan(cmd_name, is_admin, i + 1,
                            [best_suggestion |-> Registry[i].name,
                             min_distance |-> distance])
             ELSE best_scan(cmd_name, is_admin, i + 1, acc)

\* the length limits of _send_suggested_command
SuggestMaxLen == 15
SuggestMinLen == 5
SuggestMaxDistance == 2

\* a length ceiling that stops nothing
TooLong_never(len) == FALSE

\* if len(cmd_name) > 15
TooLong(len) == len > SuggestMaxLen

\* a length floor that stops nothing
TooShort_never(len) == FALSE

\* if len(cmd_name) < 5
TooShort(len) == len < SuggestMinLen

\* CommandHandler._send_suggested_command: [result, sent]
_send_suggested_command(cmd_name, muc, nick, jid, run) ==
    LET len == Len(Chars(cmd_name))
        user == UserKey(muc, nick, jid)
        is_admin == jid \in admins
        best == best_scan(cmd_name, is_admin, 1,
                          [best_suggestion |-> None, min_distance |-> Inf])
    IN  IF TooLong(len) \/ TooShort(len)
        THEN [result |-> None, sent |-> <<>>]
        ELSE IF best.min_distance >= len \/ best.min_distance > SuggestMaxDistance
        THEN [result |-> None, sent |-> <<>>]
        ELSE IF run
        THEN [result |-> best.best_suggestion, sent |-> <<>>]
        ELSE [result |-> None,
              sent |-> send_message_processed(<<>>, user,
                          [kind |-> "suggestion", input |-> cmd_name,
                           command |-> best.best_suggestion], "chat")]

\* a dispatcher that does not look at the aliases
alias_scan_none(cmd_name, i) == cmd_name

\* the alias loop of _handle_command over self.commands.values()
RECURSIVE alias_scan(_, _)
alias_scan(cmd_name, i) ==
    IF i > Len(Registry) THEN cmd_name
    ELSE alias_scan(IF cmd_name \in Registry[i].aliases
                    THEN Registry[i].name ELSE cmd_name, i + 1)

\* per-room checks that look at the list of disabled commands only
RoomForbids_by_name(muc, cmd_name) ==
    cmd_name \in MucGet(muc, "disabled_commands", {})

\* the per-room checks of _handle_command: TRUE when the command may not run
RoomForbids(muc, cmd_name) ==
    LET disabled_plugins == MucGet(muc, "disabled_plugins", {})
        whitelisted == muc \in DOMAIN mucs /\ "whitelist_plugins" \in DOMAIN mucs[muc]
        disabled_commands == MucGet(muc, "disabled_commands", {})
    IN  \/ cmd_name \in disabled_commands
        \/ Cmd(cmd_name).plugin \in disabled_plugins
        \/ whitelisted /\ Cmd(cmd_name).plugin \notin mucs[muc]["whitelist_plugins"]

\* a permission test that lets anybody run an admin command
MayExecute_any(is_admin_cmd, is_admin) == is_admin_cmd \/ ~is_admin

\* if (is_admin_cmd and is_admin) or not is_admin_cmd
MayExecute(is_admin_cmd, is_admin) == (is_admin_cmd /\ is_admin) \/ ~is_admin_cmd

\* the result of a dispatch that executes nothing
NotExecuted(lu, entry, token, user, jid, cmd_name, sent) ==
    [entry |-> entry, token |-> token, user |-> user, jid |-> jid, cmd |-> cmd_name,
     last_used |-> lu, sent |-> sent, called |-> FALSE, executed |-> FALSE,
     raised |-> FALSE, cooldown_rejected |-> FALSE,
     completed |-> TRUE, is_command |-> FALSE]

\* CommandHandler._handle_command: body is [prefix, token], the case-folded and
\* trimmed text split into "starts with the prefix" and its first token
_handle_command(lu, entry, body, muc, nick, jid_arg, current_time, raises, show, run) ==
    LET jid == IF ~Truthy(jid_arg) /\ Truthy(muc) /\ Truthy(nick)
               THEN get_jid_from_nick(muc, nick) ELSE jid_arg
        user == UserKey(muc, nick, jid)
        aliased == alias_scan(body.token, 1)
        sugg == IF aliased \notin CommandNames /\ show
                THEN _send_suggested_command(aliased, muc, nick, jid, run)
                ELSE [result |-> None, sent |-> <<>>]
        cmd_name == IF aliased \in CommandNames THEN aliased ELSE sugg.result
        is_admin == jid \in admins
    IN  IF ~body.prefix \/ body.token = ""
        THEN NotExecuted(lu, entry, None, user, jid, None, <<>>)
        ELSE IF cmd_name = None
        THEN NotExecuted(lu, entry, body.token, user, jid, None, sugg.sent)
        ELSE IF Truthy(muc) /\ RoomForbids(muc, cmd_name)
        THEN NotExecuted(lu, entry, body.token, user, jid, cmd_name, <<>>)
        ELSE IF ~MayExecute(Cmd(cmd_name).admin, is_admin)
        THEN NotExecuted(lu, entry, body.token, user, jid, cmd_name, <<>>)
        ELSE LET r == call(lu, cmd_name, muc, nick, jid, current_time, raises)
             IN  [entry |-> entry, token |-> body.token, user |-> user, jid |-> jid,
                  cmd |-> cmd_name,
                  last_used |-> r.last_used, sent |-> r.sent, called |-> TRUE,
                  executed |-> r.executed, raised |-> r.raised,
                  cooldown_rejected |-> r.cooldown_rejected,
                  completed |-> ~r.raised, is_command |-> ~r.raised]

\* CommandHandler.handle_groupchat_message(msg, quote)
cmd_handle_groupchat_message(lu, msg, current_time, raises, show, run) ==
    _handle_command(lu, "groupchat", msg.body, msg.muc, msg.nick, None,
                    current_time, raises, show, run)

\* CommandHandler.handle_whisper(msg)
cmd_handle_whisper(lu, msg, current_time, raises, show, run) ==
    _handle_command(lu, "whisper", msg.body, msg.muc, msg.nick, None,
                    current_time, raises, show, run)

\* CommandHandler.handle_private_message(msg)
cmd_handle_private_message(lu, msg, current_time, raises, show, run) ==
    _handle_command(lu, "private", msg.body, None, None, msg.jid,
                    current_time, raises, show, run)

-----------------------------------------------------------------------------
(* The dispatcher as a state machine *)

EmptyFcn == [x \in {} |-> 0]

\* f with f[k] = v
Put(f, k, v) == [x \in DOMAIN f \cup {k} |-> IF x = k THEN v ELSE f[x]]

NoDispatch ==
    [entry |-> "none", token |-> None, user |-> None, jid |-> None, cmd |-> None,
     sent |-> <<>>,
     called |-> FALSE, executed |-> FALSE, raised |-> FALSE,
     cooldown_rejected |-> FALSE, completed |-> TRUE, is_command |-> FALSE]

\* the observation of a dispatch result
DispObs(r) == [f \in DOMAIN NoDispatch |-> r[f]]

\* the state after a dispatch call with result r
Dispatched(r) ==
    /\ last_used' = r.last_used
    /\ disp' = DispObs(r)
    /\ exec_at' = IF r.executed
                  THEN [exec_at EXCEPT ![r.cmd] = Put(@, r.user, now)]
                  ELSE exec_at

\* the bodies and senders the dispatcher is driven with
Body(token) == [prefix |-> TRUE, token |-> token]
PlainBody == [prefix |-> FALSE, token |-> "hello"]
BarePrefix == [prefix |-> TRUE, token |-> ""]

\* raises: whether the handler of the command the message runs raises
RoomMsgs ==
    {[muc |-> Lobby, nick |-> "alice", body |-> b, raises |-> FALSE] :
        b \in {Body("status"), Body("stats"), Body("st"), Body("restart"),
               Body("statu"), Body("hlep"), PlainBody}}
    \cup {[muc |-> Lobby, nick |-> "alice", body |-> Body("stats"), raises |-> TRUE]}
    \cup {[muc |-> Lobby, nick |-> "bob", body |-> b, raises |-> FALSE] :
        b \in {Body("reboot"), Body("restrt")}}
    \cup {[muc |-> Quiet, nick |-> "alice", body |-> b, raises |-> FALSE] :
        b \in {Body("help"), Body("status"), Body("restart")}}

WhisperMsgs ==
    {[muc |-> Lobby, nick |-> "alice", body |-> b, raises |-> r] :
        b \in {Body("stats"), BarePrefix}, r \in BOOLEAN}

PrivateMsgs ==
    {[jid |-> "bob@x.org", body |-> Body("h"), raises |-> r] : r \in BOOLEAN}
    \cup {[jid |-> "alice@x.org", body |-> b, raises |-> FALSE] :
        b \in {Body("restart"), Body("restrt"), Body("zzzzzz")}}

\* CommandHandler.handle_groupchat_message
CmdGroupchat ==
    \E msg \in RoomMsgs :
        /\ \E r \in {cmd_handle_groupchat_message(last_used, msg, now, msg.raises,
                         show_command_suggestion, run_command_suggestion)} :
               Dispatched(r)
        /\ UNCHANGED <<now, cfg_vars, llm, kv, query, aio, plug_vars, ledger_vars, pres_vars, fan>>

\* CommandHandler.handle_whisper
CmdWhisper ==
    \E msg \in WhisperMsgs :
        /\ \E r \in {cmd_handle_whisper(last_used, msg, now, msg.raises,
                         show_command_suggestion, run_command_suggestion)} :
               Dispatched(r)
        /\ UNCHANGED <<now, cfg_vars, llm, kv, query, aio, plug_vars, ledger_vars, pres_vars, fan>>

\* CommandHandler.handle_private_message
CmdPrivate ==
    \E msg \in PrivateMsgs :
        /\ \E r \in {cmd_handle_private_message(last_used, msg, now, msg.raises,
                         show_command_suggestion, run_command_suggestion)} :
               Dispatched(r)
        /\ UNCHANGED <<now, cfg_vars, llm, kv, query, aio, plug_vars, ledger_vars, pres_vars, fan>>

\* the in-room messages of alice that name a command, an alias of one or a
\* token one edit away from one, in a room without rules and in the two rooms
\* with rules
RuleMsgs ==
    {[muc |-> muc, nick |-> "alice", body |-> Body(token), raises |-> FALSE] :
        muc \in {Lobby, Quiet, Mute},
        token \in {"help", "h", "status", "st", "statu", "stats"}}

\* CommandHandler.handle_groupchat_message and handle_whisper, driven with
\* RuleMsgs
CmdInRoom ==
    \E msg \in RuleMsgs, entry \in {"groupchat", "whisper"} :
        /\ \E r \in {IF entry = "groupchat"
                      THEN cmd_handle_groupchat_message(last_used, msg, now,
                               msg.raises, show_command_suggestion,
                               run_command_suggestion)
                      ELSE cmd_handle_whisper(last_used, msg, now, msg.raises,
                               show_command_suggestion, run_command_suggestion)} :
               Dispatched(r)
        /\ UNCHANGED <<now, cfg_vars, llm, kv, query, aio, plug_vars, ledger_vars, pres_vars, fan>>

\* time passes
Tick ==
    /\ now < StartTime + MaxElapsed
    /\ now' = now + 1
    /\ UNCHANGED <<cfg_vars, llm, kv, query, aio, plug_vars, cmd_vars, ledger_vars, pres_vars, fan>>

NoLedger ==
    [op |-> "none", n |-> 0, reason |-> None, msgs |-> <<>>, ran |-> FALSE,
     invoked |-> <<>>, fanned |-> FALSE, is_command |-> FALSE]
NoPresence ==
    [event |-> "none", n |-> 0, presence |-> None, user |-> None, events |-> <<>>,
     attempted |-> FALSE, blocked |-> FALSE, raised |-> FALSE]
NoFanOut == [type |-> "none"]
NoPostOffice == [n |-> 0, restarts |-> 0, delivered |-> {}]
NoTasks == [name \in {"debug_plugin", "default_plugin", "stats_plugin"} |-> {}]
NoEvent == [ev |-> "none", task |-> 0, kind |-> None, outcome |-> None]
NoAio == [task |-> EmptyFcn, phase |-> "idle", waited |-> {}, last |-> NoEvent]
NoStore ==
    [tables |-> [ns \in {"post_office", "bot_user_states"} |-> {}],
     last |-> [op |-> "none", ns |-> None, key |-> None, field |-> None,
               value |-> [type |-> "NoneType"]]]

\* ChatOrchestrator.__init__: llm_temperature (in tenths) and llm_num_predict,
\* and the models of the two backends
llm_temperature == 12
llm_num_predict == 256
openai_model == "openai-model"
ollama_model == "ollama-model"

\* the most calls of the orchestrator in one behaviour
MaxCalls == 2

\* the attributes temperature, max_tokens / num_predict and model_name / model
\* of a backend's llm object
LlmParams(temperature, num_predict, model) ==
    [temperature |-> temperature, num_predict |-> num_predict, model |-> model]

\* default_temperature, default_max_tokens / default_num_predict and
\* default_model of the interface
DefaultsOf(interface) ==
    LlmParams(llm_temperature, llm_num_predict,
              IF interface = "openai" THEN openai_model ELSE ollama_model)

\* a call that was not made yet; 0 and None are the arguments not given
NoCall ==
    [phase |-> "idle", given |-> LlmParams(0, 0, None), by |-> None,
     used |-> LlmParams(0, 0, None)]

NoLlm ==
    [openai |-> DefaultsOf("openai"), ollama |-> DefaultsOf("ollama"),
     calls |-> [c \in 1..MaxCalls |-> NoCall]]
NoQuery ==
    [n |-> 0, order_by_field |-> None, limit |-> 0, descending |-> TRUE,
     key_pattern |-> None, offset |-> 0, filter_field |-> None,
     filter_value |-> None, raised |-> FALSE, result |-> <<>>]
NoShutdown ==
    [action |-> None, phase |-> "idle", i |-> 1, log |-> <<>>, fails |-> {},
     boots |-> 0]

Init ==
    /\ now = StartTime
    /\ show_command_suggestion \in BOOLEAN
    /\ run_command_suggestion \in BOOLEAN
    /\ last_used = [n \in CommandNames |-> EmptyFcn]
    /\ disp = NoDispatch
    /\ exec_at = [n \in CommandNames |-> EmptyFcn]
    /\ chat_history = EmptyFcn
    /\ ledger = NoLedger
    /\ user_states = EmptyFcn
    /\ user_db = EmptyFcn
    /\ pres = NoPresence
    /\ fan = NoFanOut
    /\ running = TRUE
    /\ po_db = EmptyFcn
    /\ po_tasks = {}
    /\ po_boot = <<>>
    /\ po_obs = NoPostOffice
    /\ _tasks = NoTasks
    /\ down = NoShutdown
    /\ query = NoQuery
    /\ aio = NoAio
    /\ kv = NoStore
    /\ llm = NoLlm

\* the dispatcher under the default suggestion settings (xmpp.py 37-38)
InitDispatch == Init /\ show_command_suggestion /\ run_command_suggestion

NextDispatch == CmdGroupchat \/ CmdWhisper \/ CmdPrivate \/ Tick

\* the rules of a room do not look at the clock
NextRules == CmdInRoom

\* in-room messages whose token is one edit away from a command with a name
\* of 15 characters: a token of 15 and a token of 16 characters, and the name
LongMsgs ==
    {[muc |-> Lobby, nick |-> nick, body |-> Body(token), raises |-> FALSE] :
        nick \in {"alice", "bob"},
        token \in {"corporate_speek", "corporate_speakk", "corporate_speak"}}

\* CommandHandler.handle_groupchat_message and handle_whisper, driven with
\* LongMsgs
CmdLongToken ==
    \E msg \in LongMsgs, entry \in {"groupchat", "whisper"} :
        /\ \E r \in {IF entry = "groupchat"
                      THEN cmd_handle_groupchat_message(last_used, msg, now,
                               msg.raises, show_command_suggestion,
                               run_command_suggestion)
                      ELSE cmd_handle_whisper(last_used, msg, now, msg.raises,
                               show_command_suggestion, run_command_suggestion)} :
               Dispatched(r)
        /\ UNCHANGED <<now, cfg_vars, llm, kv, query, aio, plug_vars, ledger_vars, pres_vars, fan>>


SpecRules == InitDispatch /\ [][NextRules]_vars

SpecDispatch == InitDispatch /\ [][NextDispatch]_vars

\* the dispatcher with suggestions shown, run_command_suggestion either way
InitSuggest == Init /\ show_command_suggestion

\* suggestions do not look at the clock
NextSuggest == CmdGroupchat \/ CmdWhisper \/ CmdPrivate

SpecSuggest == InitSuggest /\ [][NextSuggest]_vars

\* the length window of suggestions does not look at the clock
NextWindow == CmdLongToken \/ CmdInRoom

SpecWindow == InitSuggest /\ [][NextWindow]_vars

-----------------------------------------------------------------------------
(* The plugin fan-out (core/xmpp.py) *)

\* Bot.plugins: the loaded plugins' module names, in load order
plugins == <<"debug_plugin", "default_plugin", "stats_plugin">>

\* a plugin instance, as opposed to its module name
PluginObject(name) == "<plugins." \o name \o " object>"

\* hasattr(plugin, handler_method): BasePlugin defines every hook but
\* handle_affiliation_change, and no plugin adds it
HasHandler(name, handler_method) == handler_method # "handle_affiliation_change"

\* Bot._get_disabled_plugins_for_muc
_get_disabled_plugins_for_muc(muc) == MucGet(muc, "disabled=_plugins", {})

\* Bot._get_whitelist_plugins_for_muc is not None
HasWhitelist(muc) == muc \in DOMAIN mucs /\ "whitelist_plugins" \in DOMAIN mucs[muc]

\* the skip test of _send_message_to_plugins
SkippedForMessage(muc, plugin_name) ==
    \/ plugin_name \in _get_disabled_plugins_for_muc(muc)
    \/ HasWhitelist(muc) /\ plugin_name \notin mucs[muc]["whitelist_plugins"]

\* the skip test of _handle_presence_event: the plugin instance is looked up
\* in the list of disabled plugin names
SkippedForPresence(disabled_plugins, plugin_name) ==
    PluginObject(plugin_name) \in disabled_plugins

\* a handler whose exception escapes the loop
AfterHandler_uncaught(acc, plugin_name, raised) ==
    [invoked |-> Append(acc.invoked, plugin_name),
     failed |-> IF raised THEN acc.failed \cup {plugin_name} ELSE acc.failed,
     propagated |-> raised]

\* try: await handler(...) except Exception: log -- the loop's state after one
\* handler was awaited
AfterHandler(acc, plugin_name, raised) ==
    [invoked |-> Append(acc.invoked, plugin_name),
     failed |-> IF raised THEN acc.failed \cup {plugin_name} ELSE acc.failed,
     propagated |-> FALSE]

NoneInvoked == [invoked |-> <<>>, failed |-> {}, propagated |-> FALSE]

\* the loop of _send_message_to_plugins over self.plugins.values(); fails is
\* the set of plugins whose handler raises
RECURSIVE message_scan(_, _, _, _, _)
message_scan(muc, handler_method, fails, i, acc) ==
    IF i > Len(plugins) \/ acc.propagated THEN acc
    ELSE IF SkippedForMessage(muc, plugins[i])
            \/ ~HasHandler(plugins[i], handler_method)
         THEN message_scan(muc, handler_method, fails, i + 1, acc)
         ELSE message_scan(muc, handler_method, fails, i + 1,
                           AfterHandler(acc, plugins[i], plugins[i] \in fails))

\* Bot._send_message_to_plugins(plugin_params, message_type)
_send_message_to_plugins(muc, message_type, fails) ==
    message_scan(muc, "handle_" \o message_type, fails, 1, NoneInvoked)

\* the loop of _handle_presence_event over self.plugins.values()
RECURSIVE presence_scan(_, _, _, _, _)
presence_scan(disabled_plugins, handler_method, fails, i, acc) ==
    IF i > Len(plugins) \/ acc.propagated THEN acc
    ELSE IF SkippedForPresence(disabled_plugins, plugins[i])
            \/ ~HasHandler(plugins[i], handler_method)
         THEN presence_scan(disabled_plugins, handler_method, fails, i + 1, acc)
         ELSE presence_scan(disabled_plugins, handler_method, fails, i + 1,
                            AfterHandler(acc, plugins[i], plugins[i] \in fails))

PresenceEventTypes == {"room_join", "role_change", "affiliation_change", "status_change"}
MessageTypes == {"groupchat_message", "whisper", "file_transfer", "reaction"}

\* Bot._handle_presence_event(event_type, muc, user, presence, disabled_plugins)
_handle_presence_event(event_type, disabled_plugins, fails) ==
    IF event_type \notin PresenceEventTypes THEN NoneInvoked
    ELSE presence_scan(disabled_plugins, "handle_" \o event_type, fails, 1, NoneInvoked)

\* the observation of a fan-out
FanObs(type, muc, fails, r) ==
    [type |-> type, muc |-> muc, fails |-> fails, invoked |-> r.invoked,
     failed |-> r.failed, propagated |-> r.propagated]

\* Bot._send_message_to_plugins, for a message of room muc
FanOutMessage ==
    \E muc \in {Lobby, Quiet}, type \in MessageTypes,
       fails \in SUBSET {plugins[i] : i \in 1..Len(plugins)} :
        /\ fan' = FanObs(type, muc, fails, _send_message_to_plugins(muc, type, fails))
        /\ UNCHANGED <<now, cfg_vars, llm, kv, query, aio, plug_vars, cmd_vars, ledger_vars, pres_vars>>

\* Bot._handle_presence_event, for a presence of room muc
FanOutPresence ==
    \E muc \in {Lobby, Quiet}, type \in PresenceEventTypes,
       fails \in SUBSET {plugins[i] : i \in 1..Len(plugins)} :
        /\ fan' = FanObs(type, muc, fails,
                     _handle_presence_event(type, MucGet(muc, "disabled_plugins", {}),
                                            fails))
        /\ UNCHANGED <<now, cfg_vars, llm, kv, query, aio, plug_vars, cmd_vars, ledger_vars, pres_vars>>

NextFanOut == FanOutMessage \/ FanOutPresence

SpecFanOut == Init /\ [][NextFanOut]_vars

-----------------------------------------------------------------------------
(* The key/field store (core/sql.py); a table is a function on <<key, field>> *)

\* SQLHandler.set: INSERT OR REPLACE of the text of the value
sql_set(table, key, field, text) == Put(table, <<key, field>>, text)

\* a row (key, field) exists
sql_has(table, key, field) == <<key, field>> \in DOMAIN table

\* SQLHandler.get with fallback None
sql_get(table, key, field) ==
    IF sql_has(table, key, field) THEN table[<<key, field>>] ELSE None

\* the fields SQLHandler.get_all_fields returns for a key
sql_fields(table, key) == {kf[2] : kf \in {x \in DOMAIN table : x[1] = key}}

\* the keys of a table
sql_keys(table) == {kf[1] : kf \in DOMAIN table}

\* str(value) of an optional text: str(None) is "None"
StrOpt(v) == IF v = None THEN "None" ELSE v

\* int(time.time()) at tick t
Seconds(t) == t \div Res

-----------------------------------------------------------------------------
(* JSON text of the edit history: the members of the object, in order.  A   *)
(* dict is the sequence of its <<key, value>> items in insertion order.     *)

JsonNull == "<null>"

\* d[k] = v on a dict
DictSet(d, k, v) ==
    IF \E i \in 1..Len(d) : d[i][1] = k
    THEN [i \in 1..Len(d) |-> IF d[i][1] = k THEN <<k, v>> ELSE d[i]]
    ELSE Append(d, <<k, v>>)

\* json.dumps(dict): a None key is written "null", a None value null
json_dumps(d) ==
    [i \in 1..Len(d) |-> <<IF d[i][1] = None THEN "null" ELSE d[i][1],
                           IF d[i][2] = None THEN JsonNull ELSE d[i][2]>>]

\* json.loads(text): members are inserted in order, a repeated key keeps the
\* last value
RECURSIVE json_loads_from(_, _, _)
json_loads_from(text, i, d) ==
    IF i > Len(text) THEN d
    ELSE json_loads_from(text, i + 1,
            DictSet(d, text[i][1],
                    IF text[i][2] = JsonNull THEN None ELSE text[i][2]))

json_loads(text) == json_loads_from(text, 1, <<>>)

-----------------------------------------------------------------------------
(* The history and correction ledger (core/xmpp.py) *)

\* f"{muc}_{message_id}"
HistKey(muc, message_id) == muc \o "_" \o message_id

\* Bot._store_chat_history at tick t: the table after it
_store_chat_history(db, muc, nick, message_id, stanza_id, body, t) ==
    LET key == HistKey(muc, message_id)
        jid == get_jid_from_nick(muc, nick)
        d1 == IF jid # None THEN sql_set(db, key, "jid", jid) ELSE db
        d2 == sql_set(d1, key, "nick", nick)
        d3 == sql_set(d2, key, "stanza_id", StrOpt(stanza_id))
        d4 == sql_set(d3, key, "body", body)
    IN  sql_set(d4, key, "timestamp", ToString(Seconds(t)))

\* a history key that is the time of the last edit only
HistoryKey_edit(edit_timestamp, timestamp) == edit_timestamp

\* history_key = values["edit_timestamp"] or values["timestamp"]
HistoryKey(edit_timestamp, timestamp) ==
    IF Truthy(edit_timestamp) THEN edit_timestamp ELSE timestamp

\* Bot._store_correction_history at tick t: the table after it
_store_correction_history(db, muc, nick, message_id, replace_id, stanza_id, body, t) ==
    LET key == HistKey(muc, replace_id)
        edit_history == IF sql_has(db, key, "edit_history")
                        THEN json_loads(db[<<key, "edit_history">>]) ELSE <<>>
        history_key == HistoryKey(sql_get(db, key, "edit_timestamp"),
                                  sql_get(db, key, "timestamp"))
        d1 == sql_set(db, key, "body", body)
        d2 == sql_set(d1, key, "edit_timestamp", ToString(Seconds(t)))
    IN  sql_set(d2, key, "edit_history",
                json_dumps(DictSet(edit_history, history_key,
                                   sql_get(db, key, "body"))))

\* a lookup that finds no stored message
get_history_message_blind(db, muc, message_id) ==
    [found |-> FALSE, fields |-> EmptyFcn]

\* Bot.get_history_message: found is FALSE where the method returns None
get_history_message(db, muc, message_id) ==
    LET key == HistKey(muc, message_id) IN
    IF sql_get(db, key, "timestamp") = None
    THEN [found |-> FALSE, fields |-> EmptyFcn]
    ELSE [found |-> TRUE,
          fields |-> [f \in sql_fields(db, key) |-> db[<<key, f>>]]]

\* the loop of Bot._process_chat_history over the backfilled messages
RECURSIVE _process_chat_history(_, _, _, _, _)
_process_chat_history(db, muc, history, i, t) ==
    IF i > Len(history) THEN db
    ELSE LET message == history[i]
             stored_message == get_history_message(db, muc, message.id)
             d1 == IF ~stored_message.found
                   THEN _store_chat_history(db, muc, message.nick, message.id,
                                            message.stanza_id, message.text, t)
                   ELSE db
             d2 == IF message.replace # None
                   THEN _store_correction_history(d1, muc, message.nick, message.id,
                            message.replace, message.stanza_id, message.text, t)
                   ELSE d1
         IN  _process_chat_history(d2, muc, history, i + 1, t)

\* Bot._handle_correction(msg, is_muc): [db, result]
_handle_correction(db, msg, is_muc, t) ==
    IF Truthy(msg.replace)
    THEN [db |-> IF is_muc
                 THEN _store_correction_history(db, msg.muc, msg.nick, msg.id,
                          msg.replace, msg.stanza_id, msg.text, t)
                 ELSE db,
          result |-> TRUE]
    ELSE [db |-> db, result |-> FALSE]

\* Bot.ignored
ignored == {"troll"}

\* Bot.nick
bot_nick == "Nokotan"

\* Bot._is_self
_is_self(msg) == msg.nick = MucGet(msg.muc, "nick", bot_nick)

\* Bot._should_ignore_groupchat_message: every condition of the list is
\* computed before the first is tested; [db, ignore, reason]
_should_ignore_groupchat_message(db, msg, t) ==
    LET correction == _handle_correction(db, msg, TRUE, t) IN
    [db |-> correction.db,
     ignore |-> \/ msg.muc \notin joined_mucs
                \/ msg.nick \in ignored
                \/ msg.encrypted
                \/ correction.result
                \/ _is_self(msg),
     reason |-> IF msg.muc \notin joined_mucs THEN "unjoined"
                ELSE IF msg.nick \in ignored THEN "ignored"
                ELSE IF msg.encrypted THEN "encrypted"
                ELSE IF correction.result THEN "correction"
                ELSE IF _is_self(msg) THEN "self" ELSE None]

\* the most messages observed in one behaviour, and in one backfill
MaxObserved == 4
MaxBackfill == 2

\* a groupchat stanza of room Lobby without reply, quote or gateway sender
Stanza(nick, id, replace, text) ==
    [muc |-> Lobby, nick |-> nick, id |-> id, replace |-> replace,
     stanza_id |-> "s-" \o id, text |-> text,
     body |-> [prefix |-> FALSE, token |-> text],
     encrypted |-> FALSE, oob |-> None, raises |-> FALSE]

\* a groupchat stanza whose text is the prefix and a token
CommandStanza(nick, id, token) ==
    [Stanza(nick, id, None, "." \o token) EXCEPT !.body = Body(token)]

\* the stanzas observed live
LiveMsgs ==
    {Stanza("alice", id, replace, text) :
        id \in {"m1", "m2"}, replace \in {None, "m1"},
        text \in {"hello", "hello world"}}
    \cup {CommandStanza("troll", "m2", "stats"),
          Stanza(bot_nick, "m2", "m1", "hello world"),
          [Stanza("alice", "m2", None, "hello") EXCEPT !.encrypted = TRUE],
          [Stanza("alice", "m2", None, "hello") EXCEPT !.oob = "http://x.org/a.png"]}

\* the stanzas a room replays on join
BackfillMsgs ==
    {Stanza("alice", id, None, "hello") : id \in {"m1", "m2"}}
    \cup {Stanza("alice", "m2", "m1", text) : text \in {"hello", "hello world"}}

\* what the last inbound handler was driven with; ran: a command handler was
\* executed, invoked: the plugins whose handler was invoked
LedgerObs(op, msgs, reason) ==
    [op |-> op, n |-> ledger.n + Len(msgs), reason |-> reason,
     msgs |-> [i \in 1..Len(msgs) |->
                 [muc |-> msgs[i].muc, nick |-> msgs[i].nick, id |-> msgs[i].id,
                  replace |-> msgs[i].replace, text |-> msgs[i].text]],
     ran |-> FALSE, invoked |-> <<>>, fanned |-> FALSE,
     is_command |-> FALSE]

\* the observation obs of a handler that went on to dispatch and fan-out
Handled(obs, ran, invoked) == [obs EXCEPT !.ran = ran, !.invoked = invoked]

\* the observation obs of a handler that called the 'groupchat_message'
\* fan-out with plugin_params["is_command"] = is_command
FannedOut(obs, is_command) ==
    [obs EXCEPT !.fanned = TRUE, !.is_command = is_command]

\* Bot.handle_groupchat_message for the stanza msg; fails: the plugins whose
\* handler raises
handle_groupchat_message(msg, fails) ==
    /\ ledger.n < MaxObserved
    /\ \E ig \in {_should_ignore_groupchat_message(chat_history, msg, now)} :
        IF ig.ignore
        THEN /\ chat_history' = ig.db
             /\ ledger' = LedgerObs("live", <<msg>>, ig.reason)
             /\ UNCHANGED <<cmd_vars, fan>>
        ELSE IF Truthy(msg.oob)
        THEN /\ chat_history' = ig.db
             /\ \E f \in {_send_message_to_plugins(msg.muc, "file_transfer", fails)} :
                    /\ fan' = FanObs("file_transfer", msg.muc, fails, f)
                    /\ ledger' = Handled(LedgerObs("live", <<msg>>, "oob"),
                                         FALSE, f.invoked)
             /\ UNCHANGED cmd_vars
        ELSE /\ chat_history' = _store_chat_history(ig.db, msg.muc, msg.nick,
                                    msg.id, msg.stanza_id, msg.text, now)
             /\ \E r \in {cmd_handle_groupchat_message(last_used, msg, now,
                              msg.raises, show_command_suggestion,
                              run_command_suggestion)},
                   f \in {_send_message_to_plugins(msg.muc, "groupchat_message",
                                                   fails)} :
                    /\ Dispatched(r)
                    /\ fan' = IF r.raised THEN fan
                              ELSE FanObs("groupchat_message", msg.muc, fails, f)
                    /\ ledger' =
                         IF r.raised
                         THEN Handled(LedgerObs("live", <<msg>>, None),
                                      r.executed, <<>>)
                         ELSE FannedOut(Handled(LedgerObs("live", <<msg>>, None),
                                                r.executed, f.invoked),
                                        r.is_command)
    /\ UNCHANGED <<now, cfg_vars, llm, kv, query, aio, plug_vars, pres_vars>>

\* Bot.handle_groupchat_message, driven with messages and corrections
BotGroupchatMessage ==
    \E msg \in LiveMsgs, fails \in {{}, {"default_plugin"}} :
        handle_groupchat_message(msg, fails)

\* the command stanzas observed live: run by anybody, admin-only, unknown,
\* one whose handler raises, and a plain message
CommandMsgs ==
    {CommandStanza("alice", "m1", token) : token \in {"stats", "status", "restart", "xyzzy"}}
    \cup {[CommandStanza("alice", "m1", "stats") EXCEPT !.raises = TRUE],
          Stanza("alice", "m1", None, "hello")}

\* Bot.handle_groupchat_message, driven with commands
BotGroupchatCommand ==
    \E msg \in CommandMsgs, fails \in {{}, {"default_plugin"}} :
        handle_groupchat_message(msg, fails)

\* the truth value of self._should_ignore_groupchat_message, a bound method
\* that is named and not called: an object without __bool__ and __len__
bound_method_truth == TRUE

\* the reaction stanzas of the rooms
ReactionMsgs ==
    {[Stanza("alice", id, None, "+1") EXCEPT !.muc = muc] :
        id \in {"m1", "m2"}, muc \in {Lobby, Quiet}}

\* Bot.handle_reactions
BotReactions ==
    \E msg \in ReactionMsgs, fails \in {{}, {"default_plugin"}} :
        /\ ledger.n < MaxObserved
        /\ IF bound_method_truth
           THEN /\ ledger' = LedgerObs("reaction", <<msg>>, "ignored")
                /\ UNCHANGED fan
           ELSE \E f \in {_send_message_to_plugins(msg.muc, "reaction", fails)} :
                    /\ fan' = FanObs("reaction", msg.muc, fails, f)
                    /\ ledger' = Handled(LedgerObs("reaction", <<msg>>, None),
                                         FALSE, f.invoked)
        /\ UNCHANGED <<now, cfg_vars, llm, kv, query, aio, plug_vars, pres_vars, cmd_vars,
                       chat_history>>

NextInbound == BotGroupchatCommand \/ BotReactions \/ Tick

SpecInbound == InitDispatch /\ [][NextInbound]_vars

\* a room the bot has not joined
Elsewhere == "elsewhere@muc"

\* a message of alice that is stored, and the stanzas dropped for the room,
\* the sender or the encryption, each without and with a replace id
DroppedMsgs ==
    {Stanza("alice", "m1", None, "hello")}
    \cup {[Stanza(from[2], "m2", replace, "hello world")
              EXCEPT !.muc = from[1], !.encrypted = from[3]] :
             replace \in {None, "m1"},
             from \in {<<Elsewhere, "alice", FALSE>>, <<Lobby, "troll", FALSE>>,
                       <<Lobby, "alice", TRUE>>, <<Lobby, bot_nick, FALSE>>}}

\* Bot.handle_groupchat_message, driven with DroppedMsgs
BotGroupchatDropped ==
    \E msg \in DroppedMsgs : handle_groupchat_message(msg, {})

NextDropped == BotGroupchatDropped \/ Tick

SpecDropped == InitDispatch /\ [][NextDropped]_vars

\* the histories of at most MaxBackfill stanzas
Histories ==
    UNION {[1..k -> BackfillMsgs] : k \in 1..MaxBackfill}

\* Bot.join_muc of a room of the configuration: the join response's history
\* is processed, then the room is (already) in joined_mucs
JoinMuc ==
    \E history \in Histories :
        /\ ledger.n + Len(history) <= MaxObserved
        /\ chat_history' = _process_chat_history(chat_history, Lobby, history, 1, now)
        /\ ledger' = LedgerObs("backfill", history, None)
        /\ UNCHANGED <<now, cfg_vars, llm, kv, query, aio, plug_vars, cmd_vars, pres_vars, fan>>

NextLedger == BotGroupchatMessage \/ JoinMuc \/ Tick

SpecLedger == InitDispatch /\ [][NextLedger]_vars

-----------------------------------------------------------------------------
(* User presence and state (core/xmpp.py) *)

\* f"{muc}_{user}"
StateKey(muc, user) == muc \o "_" \o user

\* an omitted integer argument: `if first_seen:` is false for None and for 0
NotGiven == 0

\* Bot._save_user_state without the first_seen guard
_save_user_state_unguarded(db, muc, user, role, affiliation, status, first_seen) ==
    LET key == StateKey(muc, user)
        d1 == IF Truthy(role) THEN sql_set(db, key, "role", role) ELSE db
        d2 == IF Truthy(affiliation) THEN sql_set(d1, key, "affiliation", affiliation)
              ELSE d1
        d3 == IF Truthy(status) THEN sql_set(d2, key, "status", status) ELSE d2
    IN  IF first_seen # NotGiven
        THEN [db |-> sql_set(d3, key, "first_seen", ToString(first_seen)),
              blocked |-> FALSE]
        ELSE [db |-> d3, blocked |-> FALSE]

\* Bot._save_user_state: [db, blocked]; first_seen is the seconds of a clock
\* reading, or NotGiven where the caller leaves the default None
_save_user_state(db, muc, user, role, affiliation, status, first_seen) ==
    LET key == StateKey(muc, user)
        d1 == IF Truthy(role) THEN sql_set(db, key, "role", role) ELSE db
        d2 == IF Truthy(affiliation) THEN sql_set(d1, key, "affiliation", affiliation)
              ELSE d1
        d3 == IF Truthy(status) THEN sql_set(d2, key, "status", status) ELSE d2
    IN  IF first_seen # NotGiven
        THEN IF Truthy(sql_get(d3, key, "first_seen"))
             THEN [db |-> d3, blocked |-> TRUE]
             ELSE [db |-> sql_set(d3, key, "first_seen", ToString(first_seen)),
                   blocked |-> FALSE]
        ELSE [db |-> d3, blocked |-> FALSE]

\* f without the key k
Drop(f, k) == [x \in (DOMAIN f) \ {k} |-> f[x]]

\* the first_seen of a mirror entry: the int of time.time() when the entry is
\* made on a room join, the text of the store when the entry is loaded
PyInt(n) == [int |-> n]
PyStr(text) == [str |-> text]

\* one of the three tests of Bot._handle_state_changes: attr is "role",
\* "affiliation" or "status", value the presence's value of it; the memory
\* write goes to the top-level key attr of user_states
state_change(st, muc, user, user_state, attr, event, value) ==
    IF value # user_state[attr]
    THEN [mem |-> Put(st.mem, attr, value),
          db |-> _save_user_state(st.db, muc, user,
                     IF attr = "role" THEN value ELSE None,
                     IF attr = "affiliation" THEN value ELSE None,
                     IF attr = "status" THEN value ELSE None, NotGiven).db,
          events |-> Append(st.events, event)]
    ELSE st

\* Bot._handle_state_changes: [mem, db, events]
_handle_state_changes(mem, db, muc, user, user_state, presence) ==
    LET s0 == [mem |-> mem, db |-> db, events |-> <<>>]
        s1 == state_change(s0, muc, user, user_state, "role", "role_change",
                           presence.role)
        s2 == state_change(s1, muc, user, user_state, "affiliation",
                           "affiliation_change", presence.affiliation)
    IN  state_change(s2, muc, user, user_state, "status", "status_change",
                     presence.type)

\* Bot.handle_groupchat_presence for the presence of another occupant at tick
\* t: [mem, db, events, user, attempted, blocked, raised].  The delete of line
\* 236 names another table and removes no row of this one.
handle_groupchat_presence(mem0, db0, presence, t) ==
    LET muc == presence.muc
        nick == presence.nick
        newnick == IF presence.muc_nick # nick THEN presence.muc_nick ELSE None
        jid == presence.jid
        jid_visible == jid # None
        user0 == IF jid_visible THEN jid ELSE nick
        mem1 == IF muc \notin DOMAIN mem0 THEN Put(mem0, muc, EmptyFcn) ELSE mem0
        known0 == user0 \in DOMAIN mem1[muc]
        user_state == IF known0 THEN mem1[muc][user0] ELSE EmptyFcn
        renaming == newnick # None /\ ~jid_visible
        mem2 == IF renaming /\ known0
                THEN Put(mem1, muc, Put(Drop(mem1[muc], user0), newnick, mem1[muc][user0]))
                ELSE mem1
        db2 == IF renaming /\ known0
               THEN _save_user_state(db0, muc, user0, presence.role,
                        presence.affiliation, presence.type, NotGiven).db
               ELSE db0
        user == IF renaming THEN newnick ELSE user0
        first_seen == Seconds(t)
        saved == _save_user_state(db2, muc, user, presence.role,
                     presence.affiliation, presence.type, first_seen)
    IN  IF user \notin DOMAIN mem2[muc]
        THEN [mem |-> Put(mem2, muc, Put(mem2[muc], user,
                          [role |-> presence.role,
                           affiliation |-> presence.affiliation,
                           status |-> presence.type,
                           first_seen |-> PyInt(first_seen)])),
              db |-> saved.db, events |-> <<"room_join">>, user |-> user,
              attempted |-> TRUE, blocked |-> saved.blocked, raised |-> FALSE]
        ELSE IF "role" \notin DOMAIN user_state
        THEN [mem |-> mem2, db |-> db2, events |-> <<>>, user |-> user,
              attempted |-> FALSE, blocked |-> FALSE, raised |-> TRUE]
        ELSE LET c == _handle_state_changes(mem2, db2, muc, user, user_state, presence)
             IN  [mem |-> c.mem, db |-> c.db, events |-> c.events, user |-> user,
                  attempted |-> FALSE, blocked |-> FALSE, raised |-> FALSE]

\* the most presences processed in one behaviour
MaxPresences == 3

\* a presence stanza of room Lobby
PresenceStanza(nick, muc_nick, jid, role, affiliation, type) ==
    [muc |-> Lobby, nick |-> nick, muc_nick |-> muc_nick, jid |-> jid,
     role |-> role, affiliation |-> affiliation, type |-> type]

\* the presences of the other occupants: two anonymous nicks that can rename
\* to each other and change role, and one occupant whose address is visible
\* and whose affiliation and status change
Presences ==
    {PresenceStanza(nick, muc_nick, None, role, "none", "available") :
        nick \in {"ann", "amy"}, muc_nick \in {"ann", "amy"},
        role \in {"participant", "moderator"}}
    \cup {PresenceStanza("cat", "cat", "carol@x.org", "participant", affiliation, type) :
        affiliation \in {"none", "member"}, type \in {"available", "away"}}

\* what the presence handler was last driven with, and what it did
PresObs(presence, r) ==
    [event |-> "presence", n |-> pres.n + 1, presence |-> presence,
     user |-> r.user, events |-> r.events, attempted |-> r.attempted,
     blocked |-> r.blocked, raised |-> r.raised]

\* Bot.handle_groupchat_presence for the stanza presence; every event of the
\* presence is fanned out by Bot._handle_presence_event, fan keeps the last
PresenceHandled(presence, fails) ==
    /\ pres.n < MaxPresences
    /\ \E r \in {handle_groupchat_presence(user_states, user_db, presence, now)} :
        /\ user_states' = r.mem
        /\ user_db' = r.db
        /\ pres' = PresObs(presence, r)
        /\ fan' = IF r.events = <<>> THEN fan
                  ELSE FanObs(r.events[Len(r.events)], presence.muc, fails,
                           _handle_presence_event(r.events[Len(r.events)],
                               MucGet(presence.muc, "disabled_plugins", {}),
                               fails))
    /\ UNCHANGED <<now, cfg_vars, llm, kv, query, aio, plug_vars, cmd_vars, ledger_vars>>

\* Bot.handle_groupchat_presence, driven with the occupants of room Lobby
GroupchatPresence ==
    \E presence \in Presences, fails \in {{}, {"default_plugin"}} :
        PresenceHandled(presence, fails)

\* a room whose address holds the separator of the state keys
DevRoom == "dev_room@muc"

\* the presences of anonymous occupants, with and without the separator in
\* the nick, in a room without and a room with the separator in its address
RestartPresences ==
    {[PresenceStanza(nick, nick, None, role, "none", "available") EXCEPT !.muc = muc] :
        nick \in {"ann", "big_al"}, role \in {"participant", "moderator"},
        muc \in {Lobby, DevRoom}}

\* the texts before the first "_" of the state keys, and the texts after it
KeyHeads == {Lobby, "dev"}
KeyTails ==
    {"ann", "big_al"} \cup {"room@muc_" \o user : user \in {"ann", "big_al"}}

\* key.split("_", 1): no text of KeyHeads holds a "_", so the pair found is
\* the text before the first "_" and the text after it
split_once(key) ==
    CHOOSE parts \in KeyHeads \X KeyTails : key = parts[1] \o "_" \o parts[2]

\* dict.get(field, "") on the fields of a key
FieldOr(table, key, field) ==
    IF sql_has(table, key, field) THEN table[<<key, field>>] ELSE ""

\* Bot._load_user_states: the mirror built from SQLHandler.get_all_keys
_load_user_states(db) ==
    LET loaded == {split_once(key)[1] : key \in sql_keys(db)}
        users(muc) == {split_once(key)[2] :
                           key \in {k \in sql_keys(db) : split_once(k)[1] = muc}}
    IN  [muc \in loaded |->
            [user \in users(muc) |->
                [role |-> FieldOr(db, StateKey(muc, user), "role"),
                 affiliation |-> FieldOr(db, StateKey(muc, user), "affiliation"),
                 status |-> FieldOr(db, StateKey(muc, user), "status"),
                 first_seen |-> PyStr(FieldOr(db, StateKey(muc, user),
                                                "first_seen"))]]]

\* Bot.handle_groupchat_presence, driven with RestartPresences
GroupchatPresenceAnywhere ==
    \E presence \in RestartPresences, fails \in {{}, {"default_plugin"}} :
        PresenceHandled(presence, fails)

\* Bot.__init__ of the process started next: the mirror is loaded from the
\* store
LoadUserStates ==
    /\ pres.n < MaxPresences
    /\ user_states' = _load_user_states(user_db)
    /\ pres' = [NoPresence EXCEPT !.event = "load", !.n = pres.n + 1]
    /\ UNCHANGED <<now, cfg_vars, llm, kv, query, aio, plug_vars, cmd_vars, ledger_vars,
                   user_db, fan>>

NextRestart == GroupchatPresenceAnywhere \/ LoadUserStates \/ Tick

SpecRestart == InitDispatch /\ [][NextRestart]_vars

NextPresence == GroupchatPresence \/ Tick

SpecPresence == InitDispatch /\ [][NextPresence]_vars

\* Bot._should_ignore_private_message: [ignore, reason]; the correction test
\* is made with is_muc False and writes nothing
_should_ignore_private_message(msg) ==
    [ignore |-> \/ msg.type # "chat"
                \/ msg.encrypted
                \/ Truthy(msg.oob)
                \/ Truthy(msg.replace),
     reason |-> IF msg.type # "chat" THEN "type"
                ELSE IF msg.encrypted THEN "encrypted"
                ELSE IF Truthy(msg.oob) THEN "oob"
                ELSE IF Truthy(msg.replace) THEN "correction" ELSE None]

\* a message stanza of type chat from the address bare/resource: a whisper
\* when bare is a room, a direct message otherwise
PrivateStanza(bare, resource, body, raises) ==
    [from_bare |-> bare, muc |-> bare, nick |-> resource, jid |-> bare,
     id |-> "p1", replace |-> None, text |-> "." \o body.token, body |-> body,
     type |-> "chat", encrypted |-> FALSE, oob |-> None, raises |-> raises]

\* the private stanzas received
PrivateStanzas ==
    {PrivateStanza(Lobby, "troll", Body("stats"), FALSE),
     PrivateStanza(Lobby, "alice", Body("stats"), FALSE),
     PrivateStanza(Lobby, "alice", Body("stats"), TRUE),
     PrivateStanza(Lobby, "alice", PlainBody, FALSE),
     PrivateStanza("bob@x.org", "phone", Body("h"), FALSE),
     PrivateStanza("bob@x.org", "phone", Body("h"), TRUE),
     PrivateStanza("alice@x.org", "phone", Body("h"), FALSE),
     PrivateStanza("alice@x.org", "phone", Body("statu"), FALSE),
     [PrivateStanza("bob@x.org", "phone", Body("h"), FALSE) EXCEPT !.type = "normal"],
     [PrivateStanza(Lobby, "alice", Body("stats"), FALSE) EXCEPT !.encrypted = TRUE],
     [PrivateStanza(Lobby, "alice", Body("stats"), FALSE)
         EXCEPT !.oob = "http://x.org/a.png"],
     [PrivateStanza(Lobby, "alice", Body("stats"), FALSE) EXCEPT !.replace = "p0"]}

\* a test that lets every sender of a direct message through
PrivateSenderAllowed_anyone(jid) == TRUE

\* if jid in self.admins, of Bot.handle_private_message
PrivateSenderAllowed(jid) == jid \in admins

\* Bot.handle_private_message, with Bot.handle_muc_whisper
BotPrivateMessage ==
    \E msg \in PrivateStanzas, fails \in {{}, {"default_plugin"}} :
        /\ ledger.n < MaxObserved
        /\ \E ig \in {_should_ignore_private_message(msg)} :
            IF ig.ignore
            THEN /\ ledger' = LedgerObs("private", <<msg>>, ig.reason)
                 /\ UNCHANGED <<cmd_vars, fan>>
            ELSE IF msg.from_bare \in joined_mucs
            THEN \E r \in {cmd_handle_whisper(last_used, msg, now, msg.raises,
                               show_command_suggestion, run_command_suggestion)},
                    f \in {_send_message_to_plugins(msg.muc, "whisper", fails)} :
                    /\ Dispatched(r)
                    /\ fan' = IF r.raised THEN fan
                              ELSE FanObs("whisper", msg.muc, fails, f)
                    /\ ledger' = Handled(LedgerObs("whisper", <<msg>>, None),
                                         r.executed,
                                         IF r.raised THEN <<>> ELSE f.invoked)
            ELSE IF PrivateSenderAllowed(msg.from_bare)
            THEN \E r \in {cmd_handle_private_message(last_used, msg, now,
                               msg.raises, show_command_suggestion,
                               run_command_suggestion)} :
                    /\ Dispatched(r)
                    /\ ledger' = Handled(LedgerObs("private", <<msg>>, None),
                                         r.executed, <<>>)
                    /\ UNCHANGED fan
            ELSE /\ ledger' = LedgerObs("private", <<msg>>, "not admin")
                 /\ UNCHANGED <<cmd_vars, fan>>
        /\ UNCHANGED <<now, cfg_vars, llm, kv, query, aio, plug_vars, chat_history, pres_vars>>

NextPrivate == BotPrivateMessage \/ Tick

SpecPrivate == InitDispatch /\ [][NextPrivate]_vars

-----------------------------------------------------------------------------
(* Reminders of the post office (plugins/post_office.py).  A text that is   *)
(* split at "_" is the sequence of its "_"-free segments.                   *)

\* the most reminders created and the most process restarts in one behaviour
MaxReminders == 2
MaxRestarts == 1

\* the last tick of the clock
Horizon == StartTime + MaxElapsed

\* "_".join(segs)
RECURSIVE Join(_)
Join(segs) ==
    IF Len(segs) = 1 THEN segs[1]
    ELSE segs[1] \o "_" \o Join(Tail(segs))

\* the segment sequences of the keys of table post_office
ReminderKeys == {<<"remind", Lobby, "alice">>}

\* the segments of a stored key
Segments(key) == CHOOSE segs \in ReminderKeys : Join(segs) = key

\* text.split('_', 1)[1], as segments
split_1(segs) == Tail(segs)

\* text.rsplit('_', 1) of the text with segments segs: <<head, last>>
rsplit(segs) == <<Join(SubSeq(segs, 1, Len(segs) - 1)), segs[Len(segs)]>>

\* int(text) of the text of a whole second
ParseInt(text) == CHOOSE n \in 0..(Seconds(Horizon) + 1) : ToString(n) = text

\* SQLHandler.delete(plugin_name, key, field)
sql_delete(table, key, field) == Drop(table, <<key, field>>)

\* a task of create_scheduled_task running _send_reminder(muc_nick, message,
\* timestamp); muc_nick as segments
ReminderTask(muc_nick, message, timestamp) ==
    [muc_nick |-> muc_nick, message |-> message, timestamp |-> timestamp]

\* the wrapped coroutine of create_scheduled_task has slept its delay
Due(task, t) == task.timestamp * Res <= t

\* PostOffice._add_reminder at tick t, reminddate a tick: [db, tasks]
_add_reminder(db, tasks, muc, recipient_nick, reminddate, message, t) ==
    LET timestamp == Seconds(reminddate) IN
    [db |-> sql_set(db, Join(<<"remind", muc, recipient_nick>>),
                    ToString(timestamp), message),
     tasks |-> IF timestamp > Seconds(t)
               THEN tasks \cup {ReminderTask(<<muc, recipient_nick>>, message, timestamp)}
               ELSE tasks]

\* PostOffice._send_reminder without a filter: [db, delivered]
_send_reminder(db, muc_nick, message, timestamp) ==
    LET muc == rsplit(muc_nick)[1]
        nick == rsplit(muc_nick)[2]
    IN  [db |-> sql_delete(db, Join(<<"remind", muc, nick>>), ToString(timestamp)),
         delivered |-> [mto |-> muc, nick |-> nick, message |-> message,
                        timestamp |-> timestamp]]

\* the reminders PostOffice._schedule_reminders schedules at tick t, one for
\* each loaded row whose timestamp is later than int(time.time())
ToSchedule(db, t) ==
    {ReminderTask(split_1(Segments(kf[1])), db[kf], ParseInt(kf[2])) :
        kf \in {x \in DOMAIN db : ParseInt(x[2]) > Seconds(t)}}

\* the orders in which the rows of a set can be iterated
Orders(set) ==
    {seq \in [1..Cardinality(set) -> set] :
        \A i, j \in 1..Cardinality(set) : seq[i] = seq[j] => i = j}

\* PostOffice.remindme_command with a quote and a time some whole seconds
\* ahead: the reminder is stored and scheduled by _add_reminder
AddReminder ==
    \E delay \in 1..2, message \in {"dishes", "laundry"} :
        /\ running
        /\ po_obs.n < MaxReminders
        /\ now + delay * Res <= Horizon
        /\ \E r \in {_add_reminder(po_db, po_tasks, Lobby, "alice",
                                   now + delay * Res, message, now)} :
            /\ po_db' = r.db
            /\ po_tasks' = r.tasks
        /\ po_obs' = [po_obs EXCEPT !.n = @ + 1]
        /\ UNCHANGED <<now, cfg_vars, llm, kv, query, aio, cmd_vars, ledger_vars, pres_vars, fan, life_vars,
                       running, po_boot>>

\* a scheduled task of _add_reminder wakes up and runs _send_reminder
TimerFires ==
    \E task \in po_tasks :
        /\ running
        /\ Due(task, now)
        /\ \E r \in {_send_reminder(po_db, task.muc_nick, task.message,
                                    task.timestamp)} :
            /\ po_db' = r.db
            /\ po_obs' = [po_obs EXCEPT !.delivered = @ \cup {r.delivered}]
        /\ po_tasks' = po_tasks \ {task}
        /\ UNCHANGED <<now, cfg_vars, llm, kv, query, aio, cmd_vars, ledger_vars, pres_vars, fan, life_vars,
                       running, po_boot>>

\* the scheduled task PostOffice._schedule_reminders awaits wakes up and runs
\* _send_reminder; the loop goes on to the next row
BootTimerFires ==
    /\ running
    /\ po_boot # <<>>
    /\ Due(Head(po_boot), now)
    /\ \E r \in {_send_reminder(po_db, Head(po_boot).muc_nick, Head(po_boot).message,
                                Head(po_boot).timestamp)} :
        /\ po_db' = r.db
        /\ po_obs' = [po_obs EXCEPT !.delivered = @ \cup {r.delivered}]
    /\ po_boot' = Tail(po_boot)
    /\ UNCHANGED <<now, cfg_vars, llm, kv, query, aio, cmd_vars, ledger_vars, pres_vars, fan, life_vars,
                   running, po_tasks>>

\* the process ends (shutdown, restart or disconnect): its tasks end with it
Stop ==
    /\ running
    /\ po_obs.restarts < MaxRestarts
    /\ running' = FALSE
    /\ po_tasks' = {}
    /\ po_boot' = <<>>
    /\ po_obs' = [po_obs EXCEPT !.restarts = @ + 1]
    /\ UNCHANGED <<now, cfg_vars, llm, kv, query, aio, cmd_vars, ledger_vars, pres_vars, fan, life_vars,
                   po_db>>

\* the process starts: PostOffice.__init__ loads the stored reminders and
\* creates the task _schedule_reminders
Start ==
    /\ ~running
    /\ running' = TRUE
    /\ po_boot' \in Orders(ToSchedule(po_db, now))
    /\ UNCHANGED <<now, cfg_vars, llm, kv, query, aio, cmd_vars, ledger_vars, pres_vars, fan, life_vars,
                   po_db, po_tasks, po_obs>>

NextPostOffice ==
    AddReminder \/ TimerFires \/ BootTimerFires \/ Stop \/ Start \/ Tick

SpecPostOffice == InitDispatch /\ [][NextPostOffice]_vars

\* the clock runs, due tasks run, and a process that ended is started again
SpecPostOfficeFair ==
    /\ SpecPostOffice
    /\ WF_vars(Tick)
    /\ WF_vars(TimerFires)
    /\ WF_vars(BootTimerFires)
    /\ WF_vars(Start)

-----------------------------------------------------------------------------
(* Ordered queries (core/sql.py) *)

\* the most rows asked for, the largest offset, the latest second stored
MaxLimit == 2
MaxOffset == 1
MaxStamp == 10

\* an omitted limit: `if limit` is false for None and for 0
NoLimit == 0

\* an omitted offset (offset=None); the offsets passed are not negative
NoOffset == -1

\* the seconds at which the messages of the table were stored
Stamps == {2, MaxStamp - 1, MaxStamp}

\* CAST(value AS REAL) of the text of a whole number: a stamp of the table
\* or a second of the clock
CastReal(text) == CHOOSE n \in 0..(MaxStamp + Seconds(Horizon)) : ToString(n) = text

\* key LIKE f"{muc}_%": the key starts with muc and goes on with at least one
\* character; no room of the configuration is the start of another's name
Like(key, muc) ==
    \E message_id \in {"m1", "m2", "m3"} : key = HistKey(muc, message_id)

\* SQLHandler.get_all_fields: dict(fetchall()) of the rows of a key
get_all_fields(table, key) == [f \in sql_fields(table, key) |-> table[<<key, f>>]]

\* the WHERE clause of get_ordered_by: the keys of the rows it selects
Selected(table, order_by_field, key_pattern, filter_field, filter_value) ==
    {key \in sql_keys(table) :
        /\ sql_has(table, key, order_by_field)
        /\ Truthy(key_pattern) => Like(key, key_pattern)
        /\ Truthy(filter_field) => sql_get(table, key, filter_field) = filter_value}

\* an order that puts the smaller value first whatever the direction
InOrder_ascending(a, b, descending) == a <= b

\* ORDER BY CAST(value AS REAL) DESC or ASC: a may come before b
InOrder(a, b, descending) == IF descending THEN a >= b ELSE a <= b

\* a page that starts at the first row whatever the offset
Page_no_offset(ordered, limit, offset) ==
    SubSeq(ordered, 1, IF limit # NoLimit /\ limit < Len(ordered)
                       THEN limit ELSE Len(ordered))

\* LIMIT ? OFFSET ?: the rows offset+1 .. offset+limit of the ordered rows
Page(ordered, limit, offset) ==
    LET first == IF offset # NoOffset THEN offset + 1 ELSE 1
        last == IF limit # NoLimit /\ first + limit - 1 < Len(ordered)
                THEN first + limit - 1 ELSE Len(ordered)
    IN  SubSeq(ordered, first, last)

\* SQLHandler.get_ordered_by: the results the query may have, rows of equal
\* value in any order; raised where the statement is OFFSET without LIMIT
get_ordered_by(table, order_by_field, limit, descending, key_pattern, offset, filter_field, filter_value) ==
    LET keys == Selected(table, order_by_field, key_pattern, filter_field,
                         filter_value)
        orderings == {o \in Orders(keys) :
                        \A i, j \in 1..Len(o) :
                            i < j => InOrder(CastReal(table[<<o[i], order_by_field>>]),
                                             CastReal(table[<<o[j], order_by_field>>]),
                                             descending)}
    IN  IF limit = NoLimit /\ offset # NoOffset
        THEN {[raised |-> TRUE, result |-> <<>>]}
        ELSE {[raised |-> FALSE,
               result |-> [i \in 1..Len(Page(o, limit, offset)) |->
                             get_all_fields(table, Page(o, limit, offset)[i])]] :
                 o \in orderings}

\* the messages the table is filled with
QueryMsgs ==
    {[muc |-> Lobby, id |-> "m1", nick |-> "alice"],
     [muc |-> Lobby, id |-> "m2", nick |-> "bob"],
     [muc |-> Lobby, id |-> "m3", nick |-> "alice"],
     [muc |-> Quiet, id |-> "m1", nick |-> "alice"]}

\* Bot._store_chat_history of a message when the clock reads second s; the
\* table is filled before it is queried
StoreAt ==
    \E m \in QueryMsgs, s \in Stamps :
        /\ query.n = 0
        /\ chat_history' = _store_chat_history(chat_history, m.muc, m.nick, m.id,
                                               None, "hello", s * Res)
        /\ UNCHANGED <<now, cfg_vars, llm, kv, cmd_vars, ledger, pres_vars, fan, plug_vars,
                       query, aio>>

\* a call of SQLHandler.get_ordered_by on table bot_chat_history; the call
\* leaves the table as it is, so a behaviour ends with its first call
GetOrderedBy ==
    \E limit \in {NoLimit} \cup 1..MaxLimit,
       offset \in {NoOffset} \cup 0..MaxOffset,
       descending \in BOOLEAN,
       key_pattern \in {None, Lobby},
       filter \in {[field |-> None, value |-> None],
                   [field |-> "nick", value |-> "alice"]} :
        /\ query.n = 0
        /\ \E r \in get_ordered_by(chat_history, "timestamp", limit, descending,
                                   key_pattern, offset, filter.field, filter.value) :
              query' = [n |-> query.n + 1, order_by_field |-> "timestamp",
                        limit |-> limit, descending |-> descending,
                        key_pattern |-> key_pattern, offset |-> offset,
                        filter_field |-> filter.field,
                        filter_value |-> filter.value,
                        raised |-> r.raised, result |-> r.result]
        /\ UNCHANGED <<now, cfg_vars, llm, kv, cmd_vars, ledger_vars, pres_vars, fan,
                       plug_vars, aio>>

NextQuery == StoreAt \/ GetOrderedBy

SpecQuery == InitDispatch /\ [][NextQuery]_vars

-----------------------------------------------------------------------------
(* Shutdown and restart (core/xmpp.py, plugins/base_plugin.py) *)

\* the most tasks a plugin holds
MaxTasks == 2

\* Bot.disabled_plugins, the default of global_disabled_plugins
disabled_plugins == {"example, debug_plugin"}

\* the skip test of _shutdown_or_restart: the plugin instance is looked up in
\* the list of disabled plugin names
ShutdownSkipped(plugin_name) == PluginObject(plugin_name) \in disabled_plugins

\* a loop that stops after its first plugin
LoopDone_first(i) == i > 1

\* the for loop over self.plugins.values() is exhausted at index i
LoopDone(i) == i > Len(plugins)

\* the phase of _shutdown_or_restart when its loop reaches index i
LoopAt(i) == IF LoopDone(i) THEN "disconnect" ELSE "teardown"

\* an entry of the shutdown log
Event(ev, plugin_name) == [ev |-> ev, plugin |-> plugin_name]

\* a plugin creates a background task (BasePlugin.create_task)
CreateTask ==
    \E plugin_name \in DOMAIN _tasks, task \in 1..MaxTasks :
        /\ running
        /\ task \notin _tasks[plugin_name]
        /\ _tasks' = [_tasks EXCEPT ![plugin_name] = @ \cup {task}]
        /\ UNCHANGED <<now, cfg_vars, llm, kv, query, aio, cmd_vars, ledger_vars, pres_vars, fan,
                       running, po_vars, down>>

\* a task ends and BasePlugin._task_done_callback removes it
TaskDone ==
    \E plugin_name \in DOMAIN _tasks, task \in 1..MaxTasks :
        /\ running
        /\ task \in _tasks[plugin_name]
        /\ _tasks' = [_tasks EXCEPT ![plugin_name] = @ \ {task}]
        /\ UNCHANGED <<now, cfg_vars, llm, kv, query, aio, cmd_vars, ledger_vars, pres_vars, fan,
                       running, po_vars, down>>

\* Bot.shutdown or Bot.restart is called; fails: the plugins whose
\* handle_shutdown raises
ShutdownBegin ==
    \E action \in {"shutdown", "restart"},
       fails \in SUBSET {plugins[i] : i \in 1..Len(plugins)} :
        /\ running
        /\ down.phase = "idle"
        /\ down' = [down EXCEPT !.action = action, !.fails = fails, !.i = 1,
                                !.phase = LoopAt(1)]
        /\ UNCHANGED <<now, cfg_vars, llm, kv, query, aio, cmd_vars, ledger_vars, pres_vars, fan,
                       running, po_vars, _tasks>>

\* the loop reaches a plugin: BasePlugin._handle_shutdown awaits
\* handle_shutdown; an exception leaves _shutdown_or_restart
ShutdownTeardown ==
    /\ down.phase = "teardown"
    /\ down' = IF ShutdownSkipped(plugins[down.i])
               THEN [down EXCEPT !.i = @ + 1, !.phase = LoopAt(down.i + 1)]
               ELSE [down EXCEPT
                        !.log = Append(@, Event("teardown", plugins[down.i])),
                        !.phase = IF plugins[down.i] \in down.fails
                                  THEN "failed" ELSE "cancel"]
    /\ UNCHANGED <<now, cfg_vars, llm, kv, query, aio, cmd_vars, ledger_vars, pres_vars, fan,
                   running, po_vars, _tasks>>

\* BasePlugin._handle_shutdown awaits cancel_tasks, which empties the set
ShutdownCancel ==
    /\ down.phase = "cancel"
    /\ _tasks' = [_tasks EXCEPT ![plugins[down.i]] = {}]
    /\ down' = [down EXCEPT !.log = Append(@, Event("cancel", plugins[down.i])),
                            !.i = @ + 1, !.phase = LoopAt(down.i + 1)]
    /\ UNCHANGED <<now, cfg_vars, llm, kv, query, aio, cmd_vars, ledger_vars, pres_vars, fan,
                   running, po_vars>>

\* after the loop: self.disconnect() and loop.stop(); the process ends
ShutdownDisconnect ==
    /\ down.phase = "disconnect"
    /\ down' = [down EXCEPT !.log = Append(@, Event("disconnect", None)),
                            !.phase = "done"]
    /\ running' = FALSE
    /\ UNCHANGED <<now, cfg_vars, llm, kv, query, aio, cmd_vars, ledger_vars, pres_vars, fan,
                   po_vars, _tasks>>

\* os.execv after a restart: a new process with no task and no shutdown
Boot ==
    /\ down.phase = "done"
    /\ down.action = "restart"
    /\ down.boots < MaxRestarts
    /\ running' = TRUE
    /\ _tasks' = NoTasks
    /\ down' = [NoShutdown EXCEPT !.boots = down.boots + 1]
    /\ UNCHANGED <<now, cfg_vars, llm, kv, query, aio, cmd_vars, ledger_vars, pres_vars, fan, po_vars>>

NextShutdown ==
    \/ CreateTask \/ TaskDone \/ ShutdownBegin \/ ShutdownTeardown
    \/ ShutdownCancel \/ ShutdownDisconnect \/ Boot

SpecShutdown == InitDispatch /\ [][NextShutdown]_vars

-----------------------------------------------------------------------------
(* Background tasks of a plugin (plugins/base_plugin.py) *)

\* the plugin whose tasks the event loop is followed for
TaskOwner == "stats_plugin"

\* the helpers that create a task
TaskKinds == {"task", "periodic", "scheduled"}

\* a task that is not done: where its coroutine is suspended, and whether
\* Task.cancel() was called on it
Pending(kind, at, cancel_requested) ==
    [kind |-> kind, at |-> at, cancel_requested |-> cancel_requested]

\* what the event loop did last
AioEvent(ev, task, kind, outcome) ==
    [ev |-> ev, task |-> task, kind |-> kind, outcome |-> outcome]

\* a callback that leaves the task in the set
_task_done_callback_keep(set, task) == set

\* BasePlugin._task_done_callback: self._tasks.remove(task); a KeyError is
\* caught, so removing a task that is not in the set changes nothing
_task_done_callback(set, task) == set \ {task}

\* a wait that no timeout ends
WaitOver_all(waited, timeout) == waited = {}

\* await asyncio.wait(self._tasks, timeout=timeout) is over: every task
\* waited for is done, or the timeout passed
WaitOver(waited, timeout) == waited = {} \/ timeout

\* the for loop of cancel_tasks: task.cancel() on every task of the set that
\* is not done
CancelAll(task, set) ==
    [id \in DOMAIN task |->
        IF id \in set THEN [task[id] EXCEPT !.cancel_requested = TRUE] ELSE task[id]]

\* BasePlugin.create_task, create_periodic_task or create_scheduled_task: the
\* task is scheduled and added to self._tasks
SpawnTask ==
    \E id \in 1..MaxTasks, kind \in TaskKinds :
        /\ id \notin DOMAIN aio.task
        /\ aio' = [aio EXCEPT !.task = Put(@, id, Pending(kind, "start", FALSE)),
                              !.last = AioEvent("created", id, kind, None)]
        /\ _tasks' = [_tasks EXCEPT ![TaskOwner] = @ \cup {id}]
        /\ UNCHANGED <<now, cfg_vars, llm, kv, query, cmd_vars, ledger_vars, pres_vars, fan,
                       running, po_vars, down>>

\* the task's coroutine goes on to its next await without ending: a periodic
\* task invokes its unit of work at the start and after every sleep and
\* sleeps when the unit returns, a scheduled task sleeps if its time is
\* ahead and then invokes its unit, a plain task runs its coroutine.  A task
\* with a cancellation requested is resumed with CancelledError instead.
TaskRuns ==
    \E id \in DOMAIN aio.task, due \in BOOLEAN :
        LET t == aio.task[id]
            at == IF t.at = "start"
                  THEN IF t.kind = "scheduled" /\ ~due THEN "sleep" ELSE "work"
                  ELSE IF t.at = "sleep" THEN "work"
                  ELSE "sleep"
        IN  /\ ~t.cancel_requested
            /\ t.at = "work" => t.kind = "periodic"
            /\ aio' = [aio EXCEPT !.task[id].at = at,
                                  !.last = AioEvent(IF at = "work" THEN "invoked"
                                                    ELSE "slept", id, t.kind, None)]
            /\ UNCHANGED <<now, cfg_vars, llm, kv, query, cmd_vars, ledger_vars, pres_vars,
                           fan, plug_vars>>

\* the task is done and its done callback runs: cancelled when it is resumed
\* with CancelledError, with an exception when its unit of work raises, with
\* a result when the coroutine of a plain or scheduled task returns
TaskEnds ==
    \E id \in DOMAIN aio.task, outcome \in {"success", "failure", "cancelled"} :
        LET t == aio.task[id] IN
        /\ outcome = "cancelled" <=> t.cancel_requested
        /\ outcome = "failure" => t.at = "work"
        /\ outcome = "success" => t.at = "work" /\ t.kind # "periodic"
        /\ aio' = [aio EXCEPT !.task = Drop(@, id),
                              !.waited = @ \ {id},
                              !.last = AioEvent("done", id, t.kind, outcome)]
        /\ _tasks' = [_tasks EXCEPT
                         ![TaskOwner] = _task_done_callback(@, id)]
        /\ UNCHANGED <<now, cfg_vars, llm, kv, query, cmd_vars, ledger_vars, pres_vars, fan,
                       running, po_vars, down>>

\* BasePlugin.cancel_tasks up to its await: every task of the set is asked
\* to cancel; with an empty set the method clears it and returns
CancelTasksBegin ==
    /\ aio.phase = "idle"
    /\ aio' = [aio EXCEPT !.task = CancelAll(@, _tasks[TaskOwner]),
                          !.phase = IF _tasks[TaskOwner] = {} THEN "returned"
                                    ELSE "waiting",
                          !.waited = _tasks[TaskOwner],
                          !.last = AioEvent("cancel_tasks", 0, None, None)]
    /\ UNCHANGED <<now, cfg_vars, llm, kv, query, cmd_vars, ledger_vars, pres_vars, fan,
                   plug_vars>>

\* BasePlugin.cancel_tasks from its await on: the wait is over, what is left
\* is logged, and self._tasks.clear()
CancelTasksReturn ==
    \E timeout \in BOOLEAN :
        /\ aio.phase = "waiting"
        /\ WaitOver(aio.waited, timeout)
        /\ aio' = [aio EXCEPT !.phase = "returned",
                              !.last = AioEvent("returned", 0, None, None)]
        /\ _tasks' = [_tasks EXCEPT ![TaskOwner] = {}]
        /\ UNCHANGED <<now, cfg_vars, llm, kv, query, cmd_vars, ledger_vars, pres_vars, fan,
                       running, po_vars, down>>

NextTasks ==
    SpawnTask \/ TaskRuns \/ TaskEnds \/ CancelTasksBegin \/ CancelTasksReturn

SpecTasks == InitDispatch /\ [][NextTasks]_vars

\* the timeout of asyncio.wait passes
SpecTasksFair == SpecTasks /\ WF_vars(CancelTasksReturn)

-----------------------------------------------------------------------------
(* The key/field store as a relation (core/sql.py): a table is the set of   *)
(* its rows                                                                 *)

\* a row of CREATE TABLE (key, field, value)
Row(key, field, value) == [key |-> key, field |-> field, value |-> value]

\* the values the calls are made with: an int, None and a str
StoreValues ==
    {[type |-> "int", v |-> 7], [type |-> "NoneType"], [type |-> "str", s |-> "x"]}

\* str(value)
Str(value) ==
    CASE value.type = "int" -> ToString(value.v)
      [] value.type = "NoneType" -> "None"
      [] value.type = "str" -> value.s

\* the rows that conflict with (key, field) on the PRIMARY KEY
Conflicting(rows, key, field) == {r \in rows : r.key = key /\ r.field = field}

\* a plain INSERT that leaves the old row of the key and field in the table
sqlhandler_set_insert(rows, key, field, value) ==
    rows \cup {Row(key, field, Str(value))}

\* SQLHandler.set: INSERT OR REPLACE INTO ... VALUES (key, field, str(value))
sqlhandler_set(rows, key, field, value) ==
    (rows \ Conflicting(rows, key, field)) \cup {Row(key, field, Str(value))}

\* SQLHandler.get: fetchone() of SELECT value WHERE key = ? AND field = ?
sqlhandler_get(rows, key, field, fallback) ==
    IF Conflicting(rows, key, field) # {}
    THEN (CHOOSE r \in Conflicting(rows, key, field) : TRUE).value
    ELSE fallback

\* SQLHandler.delete: `if field` is false for None and for ""
sqlhandler_delete(rows, key, field) ==
    IF Truthy(field)
    THEN rows \ Conflicting(rows, key, field)
    ELSE {r \in rows : r.key # key}

\* the (namespace, key, field) triples the calls are made on
Triples ==
    ({"post_office"} \X {"k1", "k2"} \X {"a", "b"})
    \cup {<<"bot_user_states", "k1", "a">>}

\* a call of SQLHandler.set
SqlSet ==
    \E t \in Triples, value \in StoreValues :
        /\ kv' = [tables |-> [kv.tables EXCEPT
                                ![t[1]] = sqlhandler_set(@, t[2], t[3], value)],
                  last |-> [op |-> "set", ns |-> t[1], key |-> t[2],
                            field |-> t[3], value |-> value]]
        /\ UNCHANGED <<now, cfg_vars, llm, query, aio, cmd_vars, ledger_vars, pres_vars,
                       fan, plug_vars>>

\* a call of SQLHandler.delete, with a field or without one
SqlDelete ==
    \E t \in Triples, field \in {"a", "b", None} :
        /\ field # None => field = t[3]
        /\ kv' = [tables |-> [kv.tables EXCEPT
                                ![t[1]] = sqlhandler_delete(@, t[2], field)],
                  last |-> [op |-> "delete", ns |-> t[1], key |-> t[2],
                            field |-> field, value |-> [type |-> "NoneType"]]]
        /\ UNCHANGED <<now, cfg_vars, llm, query, aio, cmd_vars, ledger_vars, pres_vars,
                       fan, plug_vars>>

NextStore == SqlSet \/ SqlDelete

SpecStore == InitDispatch /\ [][NextStore]_vars

-----------------------------------------------------------------------------
(* The LLM orchestrator (core/llm.py) *)

\* _set_llm_parameters up to the yield: the attributes of a backend's llm
\* object after the arguments that are truthy were written
_set_llm_parameters_enter(params, given) ==
    LlmParams(IF given.temperature # 0 THEN given.temperature ELSE params.temperature,
              IF given.num_predict # 0 THEN given.num_predict ELSE params.num_predict,
              IF Truthy(given.model) THEN given.model ELSE params.model)

\* the finally block of _set_llm_parameters: the defaults are written back for
\* the arguments that are truthy
_set_llm_parameters_exit(params, defaults, given) ==
    LlmParams(IF given.temperature # 0 THEN defaults.temperature ELSE params.temperature,
              IF given.num_predict # 0 THEN defaults.num_predict ELSE params.num_predict,
              IF Truthy(given.model) THEN defaults.model ELSE params.model)

\* the arguments a call is made with
Overrides ==
    {LlmParams(temperature, num_predict, model) :
        temperature \in {0, 2}, num_predict \in {0, 64}, model \in {None, "small-model"}}

\* send_prompt / send_message / send_multiple_messages of the orchestrator up
\* to the await on the primary backend
LlmEnter ==
    \E c \in 1..MaxCalls, given \in Overrides :
        /\ llm.calls[c].phase = "idle"
        /\ llm' = [llm EXCEPT
                     !.openai = _set_llm_parameters_enter(@, given),
                     !.ollama = _set_llm_parameters_enter(@, given),
                     !.calls[c] = [@ EXCEPT !.phase = "entered", !.given = given]]
        /\ UNCHANGED <<now, cfg_vars, kv, query, aio, plug_vars, cmd_vars, ledger_vars,
                       pres_vars, fan>>

\* self.llm.ainvoke of the primary backend builds its request from the
\* attributes of the llm object
LlmRequest ==
    \E c \in 1..MaxCalls :
        /\ llm.calls[c].phase = "entered"
        /\ llm' = [llm EXCEPT !.calls[c] =
                     [@ EXCEPT !.phase = "primary", !.by = "openai", !.used = llm.openai]]
        /\ UNCHANGED <<now, cfg_vars, kv, query, aio, plug_vars, cmd_vars, ledger_vars,
                       pres_vars, fan>>

\* the primary backend raised: except Exception, and the request of the
\* fallback backend is built from the attributes of its llm object
LlmFallback ==
    \E c \in 1..MaxCalls :
        /\ llm.calls[c].phase = "primary"
        /\ llm' = [llm EXCEPT !.calls[c] =
                     [@ EXCEPT !.phase = "fallback", !.by = "ollama", !.used = llm.ollama]]
        /\ UNCHANGED <<now, cfg_vars, kv, query, aio, plug_vars, cmd_vars, ledger_vars,
                       pres_vars, fan>>

\* the backend answered (or the fallback raised): the with block is left
LlmReturn ==
    \E c \in 1..MaxCalls :
        /\ llm.calls[c].phase \in {"primary", "fallback"}
        /\ llm' = [llm EXCEPT
                     !.openai = _set_llm_parameters_exit(@, DefaultsOf("openai"),
                                                         llm.calls[c].given),
                     !.ollama = _set_llm_parameters_exit(@, DefaultsOf("ollama"),
                                                         llm.calls[c].given),
                     !.calls[c] = [@ EXCEPT !.phase = "done"]]
        /\ UNCHANGED <<now, cfg_vars, kv, query, aio, plug_vars, cmd_vars, ledger_vars,
                       pres_vars, fan>>

NextLlm == LlmEnter \/ LlmRequest \/ LlmFallback \/ LlmReturn

SpecLlm == InitDispatch /\ [][NextLlm]_vars

\* every handler of the bot
Next == NextDispatch \/ NextFanOut \/ NextLedger \/ NextPrivate \/ NextPresence
          \/ NextPostOffice \/ NextShutdown \/ NextQuery \/ NextTasks \/ NextStore
    \/ NextInbound \/ NextRestart \/ NextRules \/ NextWindow \/ NextDropped \/ NextLlm

Spec == Init /\ [][Next]_vars

-----------------------------------------------------------------------------
(* Claims about the dispatcher *)

\* a step in which a dispatch call changed the dispatcher's state
DispatchStep == cmd_vars' # cmd_vars

\* a cooldown notice addressed to user is among the messages sent
CooldownNoticeTo(sent, user) ==
    \E i \in 1..Len(sent) : sent[i].to = user /\ sent[i].body.kind = "cooldown"

\* the handler of command c ran for user less than `window` ticks before t
RanWithin(c, user, t, window) ==
    /\ user \in DOMAIN exec_at[c]
    /\ t - exec_at[c][user] < window

\* C1: when Command.call is entered for command C and user key U less than
\* C.cooldown after C's handler last ran for U, the handler is not run and a
\* cooldown notice is sent to U.
C1_CooldownRejects ==
    [][(/\ DispatchStep
        /\ disp'.called
        /\ RanWithin(disp'.cmd, disp'.user, now', CooldownTicks(disp'.cmd)))
       => (/\ ~disp'.executed
           /\ CooldownNoticeTo(disp'.sent, disp'.user))]_vars

\* C1 witness: a call rejected for the command's own cooldown
C1_Witness ==
    /\ disp.cooldown_rejected
    /\ RanWithin(disp.cmd, disp.user, now, CooldownTicks(disp.cmd))
    /\ CooldownNoticeTo(disp.sent, disp.user)
    /\ ~disp.sent[1].body.category_cooldown

\* the commands other than c that share c's category
Siblings(c) ==
    {a \in CommandNames : a # c /\ Truthy(Cmd(c).category)
                          /\ Cmd(a).category = Cmd(c).category}

\* C2 as stated: after sibling A ran for U, command B of the same category is
\* rejected for U as long as less than A.cooldown has passed.
C2_BlockedForSiblingCooldown ==
    [][(DispatchStep /\ disp'.called)
       => \A a \in Siblings(disp'.cmd) :
             RanWithin(a, disp'.user, now', CooldownTicks(a)) => ~disp'.executed]_vars

\* C2 amended: after sibling A ran for U, command B of the same category is
\* rejected for U as long as less than B.cooldown (the invoked command's own
\* cooldown) has passed since A ran.
C2_BlockedForOwnCooldown ==
    [][(DispatchStep /\ disp'.called)
       => \A a \in Siblings(disp'.cmd) :
             RanWithin(a, disp'.user, now', CooldownTicks(disp'.cmd))
             => (~disp'.executed /\ CooldownNoticeTo(disp'.sent, disp'.user))]_vars

\* C2 witness: a call rejected because a sibling of another cooldown length ran
C2_Witness ==
    /\ disp.cooldown_rejected
    /\ disp.sent[1].body.category_cooldown
    /\ \E a \in Siblings(disp.cmd) :
          /\ Cmd(a).cooldown # Cmd(disp.cmd).cooldown
          /\ RanWithin(a, disp.user, now, CooldownTicks(disp.cmd))

\* the last dispatch resolved to an admin-only command for a non-admin sender
AdminOnlyByNonAdmin(d) ==
    /\ d.cmd # None
    /\ Cmd(d.cmd).admin
    /\ d.jid \notin admins

\* C3: an admin-only command from a sender whose identity is not an admin:
\* the dispatcher returns false, runs no handler, sends nothing and changes no
\* last-used timestamp.
C3_AdminOnlyDenied ==
    [][AdminOnlyByNonAdmin(disp')
       => (/\ disp'.completed /\ ~disp'.is_command
           /\ ~disp'.called /\ ~disp'.executed
           /\ disp'.sent = <<>>
           /\ last_used' = last_used
           /\ exec_at' = exec_at)]_vars

\* C3 witness: alice (not an admin) sent the admin-only command restart
C3_Witness ==
    /\ AdminOnlyByNonAdmin(disp)
    /\ disp.entry = "groupchat"
    /\ disp.user = UserKey(Lobby, "alice", None)
    /\ ~disp.is_command

\* C4 as stated: every dispatch call completes normally and returns its
\* boolean, also when the command's handler raises.
C4_DispatchCompletes == disp.completed

\* the smallest whole number of seconds that is at least `ticks` ticks
Ceiling(ticks) == (ticks + Res - 1) \div Res

\* the ticks since the use that the cooldown test of Command.call looks at
Elapsed(lu, name, user, current_time) ==
    current_time - EffectiveLastUsed(lu, name, user).last_used_time

\* C16 as stated: when an invocation is rejected for cooldown, the remaining
\* time stated in the cooldown notice equals the ceiling of
\* (cooldown - elapsed), for every elapsed in [0, cooldown), whole values of
\* cooldown - elapsed included.
C16_NoticeStatesCeiling ==
    [][(DispatchStep /\ disp'.cooldown_rejected)
       => \A i \in 1..Len(disp'.sent) :
             disp'.sent[i].body.kind = "cooldown"
             => disp'.sent[i].body.seconds
                  = Ceiling(CooldownTicks(disp'.cmd)
                            - Elapsed(last_used', disp'.cmd, disp'.user, now'))]_vars

\* the dispatch d was given a token that is neither a command nor an alias
Unresolved(d) ==
    /\ d.entry # "none"
    /\ d.token # None
    /\ \A i \in 1..Len(Registry) :
          d.token # Registry[i].name /\ d.token \notin Registry[i].aliases

\* the places in the registry of the commands the caller may use
Allowed(jid) == {i \in 1..Len(Registry) : ~Registry[i].admin \/ jid \in admins}

\* the Levenshtein distance of a token to the i-th registered name
Distance(token, i) == levenshtein_distance(Chars(token), Chars(Registry[i].name))

\* the earliest registered among the allowed commands nearest to the token
Nearest(token, jid) ==
    CHOOSE i \in Allowed(jid) :
        \A j \in Allowed(jid) :
            \/ Distance(token, i) < Distance(token, j)
            \/ Distance(token, i) = Distance(token, j) /\ i <= j

\* the command the dispatch d suggested: the one it went on with when
\* suggestions are run, the one its "did you mean" reply names otherwise
Suggested(d) ==
    IF run_command_suggestion THEN d.cmd
    ELSE IF \E k \in 1..Len(d.sent) : d.sent[k].body.kind = "suggestion"
    THEN d.sent[CHOOSE k \in 1..Len(d.sent) :
                    d.sent[k].body.kind = "suggestion"].body.command
    ELSE None

\* C17: with suggestion enabled and an unresolved candidate of eligible
\* length, the suggested command is the registered name, among those the
\* caller may use, with minimum Levenshtein distance to the candidate, the
\* earliest registered among ties, accepted iff distance < len(candidate) and
\* distance <= 2; candidate "statu" yields "status" at distance 1.
C17_SuggestionIsNearest ==
    (/\ Unresolved(disp)
     /\ Len(Chars(disp.token)) >= 5
     /\ Len(Chars(disp.token)) <= 15)
    => LET best == Nearest(disp.token, disp.jid)
           distance == Distance(disp.token, best)
       IN  /\ Suggested(disp) =
                 IF distance < Len(Chars(disp.token)) /\ distance <= 2
                 THEN Registry[best].name ELSE None
           /\ disp.token = "statu"
                 => Suggested(disp) = "status" /\ distance = 1

\* C17 witness: "did you mean status" was sent for the candidate "statu",
\* which is as near to "stats"
C17_Witness ==
    /\ Unresolved(disp)
    /\ disp.token = "statu"
    /\ ~run_command_suggestion
    /\ Suggested(disp) = "status"
    /\ Distance("statu", 2) = Distance("statu", 3)

\* C18: no suggestion is produced (no command run, no "did you mean" reply,
\* the dispatcher returns false) for an unresolved candidate shorter than 5
\* characters, whatever its distance to a registered command.
C18_ShortCandidateIgnored ==
    (Unresolved(disp) /\ Len(Chars(disp.token)) < 5)
    => /\ disp.cmd = None
       /\ ~disp.called
       /\ ~disp.executed
       /\ disp.sent = <<>>
       /\ ~disp.is_command

\* C18 witness: "hlep", one transposition from "help", was dispatched and
\* nothing came of it
C18_Witness ==
    /\ Unresolved(disp)
    /\ disp.token = "hlep"
    /\ Distance("hlep", 1) <= 2
    /\ disp.cmd = None

-----------------------------------------------------------------------------
(* Claims about the fan-out *)

\* the place of a plugin in the load order
PluginIndex(name) == CHOOSE i \in 1..Len(plugins) : plugins[i] = name

\* what the same fan-out invokes when no handler raises
InvokedWithoutFaults(f) ==
    IF f.type \in MessageTypes
    THEN _send_message_to_plugins(f.muc, f.type, {}).invoked
    ELSE _handle_presence_event(f.type, MucGet(f.muc, "disabled_plugins", {}), {}).invoked

\* C5: the fan-out invokes the handlers in plugin registration order, a
\* handler that raises does not keep the handlers of the later plugins from
\* being invoked, and no exception leaves the fan-out.
C5_FanOutIsolated ==
    fan.type # "none" =>
        /\ \A i, j \in 1..Len(fan.invoked) :
              i < j => PluginIndex(fan.invoked[i]) < PluginIndex(fan.invoked[j])
        /\ fan.invoked = InvokedWithoutFaults(fan)
        /\ fan.failed = {p \in fan.fails : \E i \in 1..Len(fan.invoked) : fan.invoked[i] = p}
        /\ ~fan.propagated

\* C5 witness: the first plugin's handler raised and the two after it ran
C5_Witness ==
    /\ fan.type = "groupchat_message"
    /\ fan.failed = {plugins[1]}
    /\ fan.invoked = plugins

\* C12: for every event fanned out for a room, no invoked plugin is in the
\* room's disabled_plugins list or missing from the room's whitelist.
C12_DisabledNeverInvoked ==
    fan.type # "none" =>
        \A i \in 1..Len(fan.invoked) :
            /\ fan.invoked[i] \notin MucGet(fan.muc, "disabled_plugins", {})
            /\ HasWhitelist(fan.muc)
                 => fan.invoked[i] \in mucs[fan.muc]["whitelist_plugins"]

-----------------------------------------------------------------------------
(* Claims about the history and correction ledger *)

\* a step that observes stanzas, live or replayed
LedgerStep == ledger'.n # ledger.n

\* the stanzas the step observes are all plain / all corrections
AllPlain(msgs) == \A i \in 1..Len(msgs) : msgs[i].replace = None
AllCorrections(msgs) == \A i \in 1..Len(msgs) : msgs[i].replace # None

\* the entry under key has the same fields with the same values in both tables
SameEntry(db1, db2, key) ==
    /\ sql_fields(db1, key) = sql_fields(db2, key)
    /\ \A f \in sql_fields(db1, key) : db1[<<key, f>>] = db2[<<key, f>>]

\* C6: when an entry for (room, messageId) exists, observing a plain message
\* with the same (room, messageId) again, live or via backfill, leaves every
\* field of the stored entry unchanged.
C6_ReplayLeavesEntry ==
    [][(LedgerStep /\ AllPlain(ledger'.msgs)) =>
        \A i \in 1..Len(ledger'.msgs) :
            LET key == HistKey(ledger'.msgs[i].muc, ledger'.msgs[i].id) IN
            get_history_message(chat_history, ledger'.msgs[i].muc,
                                ledger'.msgs[i].id).found
                => SameEntry(chat_history, chat_history', key)]_vars

\* the keys replaced by msgs for which an entry exists in db
ReplacedExisting(db, msgs) ==
    {HistKey(msgs[i].muc, msgs[i].replace) :
        i \in {j \in 1..Len(msgs) :
                 get_history_message(db, msgs[j].muc, msgs[j].replace).found}}

\* C7: processing correction events, live or found in backfill, adds no row
\* to the history store except under a replaced entry that existed beforehand.
C7_CorrectionAddsNoKey ==
    [][(LedgerStep /\ AllCorrections(ledger'.msgs)) =>
        \A kf \in (DOMAIN chat_history') \ (DOMAIN chat_history) :
            kf[1] \in ReplacedExisting(chat_history, ledger'.msgs)]_vars

\* the entry of (muc, id) has never been corrected
Fresh(db, muc, id) ==
    /\ get_history_message(db, muc, id).found
    /\ ~sql_has(db, HistKey(muc, id), "edit_history")
    /\ ~sql_has(db, HistKey(muc, id), "edit_timestamp")

\* C8: recording a previously unseen message with body b makes the fetched
\* entry carry body b; one correction of a never corrected entry with body b'
\* makes the fetched entry carry body b' and an edit history of exactly one
\* item, the entry's original timestamp mapped to the body it had.
C8_LedgerRoundTrip ==
    [][(LedgerStep /\ Len(ledger'.msgs) = 1) =>
        LET m == ledger'.msgs[1]
            before == get_history_message(chat_history, m.muc, m.replace)
            after == get_history_message(chat_history', m.muc,
                         IF m.replace = None THEN m.id ELSE m.replace)
        IN  /\ (/\ m.replace = None
                /\ ledger'.reason = None
                /\ ~get_history_message(chat_history, m.muc, m.id).found)
               => (after.found /\ after.fields["body"] = m.text)
            /\ (m.replace # None /\ Fresh(chat_history, m.muc, m.replace))
               => /\ after.found
                  /\ after.fields["body"] = m.text
                  /\ "edit_history" \in DOMAIN after.fields
                  /\ json_loads(after.fields["edit_history"])
                       = << <<before.fields["timestamp"], before.fields["body"]>> >>]_vars

\* m1 was recorded as "hello" and then corrected once to "hello world"
C8_Witness ==
    /\ ledger.n = 2
    /\ Len(ledger.msgs) = 1
    /\ ledger.msgs[1].replace = "m1"
    /\ sql_get(chat_history, HistKey(Lobby, "m1"), "body") = "hello world"
    /\ sql_has(chat_history, HistKey(Lobby, "m1"), "timestamp")
    /\ sql_has(chat_history, HistKey(Lobby, "m1"), "edit_history")
    /\ json_loads(chat_history[<<HistKey(Lobby, "m1"), "edit_history">>])
         = << <<chat_history[<<HistKey(Lobby, "m1"), "timestamp">>], "hello">> >>

\* the places in msgs of the corrections of message id
CorrectionsOf(msgs, id) == {i \in 1..Len(msgs) : msgs[i].replace = id}

\* the last and, when there are several, the last but one of a set of places
Last(places) == CHOOSE i \in places : \A j \in places : j <= i
LastButOne(places) == Last(places \ {Last(places)})

\* the bodies kept in the edit history of the entry under key
EditedBodies(db, key) ==
    IF sql_has(db, key, "edit_history")
    THEN LET edit_history == json_loads(db[<<key, "edit_history">>])
         IN  {edit_history[k][2] : k \in 1..Len(edit_history)}
    ELSE {}

\* a message was recorded under key: the rows _store_chat_history always
\* writes are there
Recorded(db, key) ==
    {"nick", "stanza_id", "body", "timestamp"} \subseteq sql_fields(db, key)

\* C20: on room join with backfill, a backfilled message whose (room, id) is
\* already present in the store creates no duplicate entry and does not
\* rewrite the stored entry, while a correction stanza for that message found
\* in the same backfill is still applied to the stored entry: the body is
\* replaced and the prior body is added to the edit history.
C20_BackfillKeepsEntry ==
    [][(LedgerStep /\ ledger'.op = "backfill") =>
        \A i \in 1..Len(ledger'.msgs) :
            LET m == ledger'.msgs[i]
                key == HistKey(m.muc, m.id)
                corrections == CorrectionsOf(ledger'.msgs, m.id)
            IN  Recorded(chat_history, key)
                => /\ Recorded(chat_history', key)
                   /\ corrections = {} => SameEntry(chat_history, chat_history', key)
                   /\ corrections # {}
                      => /\ \A f \in sql_fields(chat_history, key)
                                       \ {"body", "edit_timestamp", "edit_history"} :
                               sql_get(chat_history', key, f) = chat_history[<<key, f>>]
                         /\ sql_get(chat_history', key, "body")
                              = ledger'.msgs[Last(corrections)].text
                         /\ (IF Cardinality(corrections) = 1
                             THEN chat_history[<<key, "body">>]
                             ELSE ledger'.msgs[LastButOne(corrections)].text)
                               \in EditedBodies(chat_history', key)]_vars

\* C20 witness: the backfill replayed m1, stored before the join as "hello",
\* and a correction of m1 to "hello world", which was applied
C20_Witness ==
    /\ ledger.op = "backfill"
    /\ ledger.n > Len(ledger.msgs)
    /\ Len(ledger.msgs) = 2
    /\ ledger.msgs[1].id = "m1" /\ ledger.msgs[1].replace = None
    /\ ledger.msgs[2].id = "m2" /\ ledger.msgs[2].replace = "m1"
    /\ sql_get(chat_history, HistKey(Lobby, "m1"), "body") = "hello world"
    /\ "hello" \in EditedBodies(chat_history, HistKey(Lobby, "m1"))
    /\ sql_get(chat_history, HistKey(Lobby, "m1"), "timestamp")
         # sql_get(chat_history, HistKey(Lobby, "m1"), "edit_timestamp")

-----------------------------------------------------------------------------
(* Claims about inbound messages *)

\* C13: for an inbound groupchat message or whisper whose sender nick is in
\* the ignored set, no command handler is executed and no plugin handler is
\* invoked.
C13_IgnoredNickDropped ==
    (/\ ledger.op \in {"live", "whisper"}
     /\ ledger.msgs[1].nick \in ignored)
        => (~ledger.ran /\ ledger.invoked = <<>>)

-----------------------------------------------------------------------------
(* Claims about user presence and state *)

\* a step that processes a presence
PresenceStep == pres'.n # pres.n

\* C9: a first_seen value the store holds for (room, user) is never changed or
\* removed, and a save of a first_seen for a (room, user) that has one is
\* rejected.
C9_FirstSeenWriteOnce ==
    [][/\ \A kf \in DOMAIN user_db :
            kf[2] = "first_seen"
                => (kf \in DOMAIN user_db' /\ user_db'[kf] = user_db[kf])
       /\ (/\ PresenceStep
           /\ pres'.attempted
           /\ sql_has(user_db, StateKey(pres'.presence.muc, pres'.user), "first_seen"))
          => pres'.blocked]_vars

\* a save of first_seen was rejected at a time other than the one stored
C9_Witness ==
    /\ pres.attempted
    /\ pres.blocked
    /\ sql_has(user_db, StateKey(pres.presence.muc, pres.user), "first_seen")
    /\ user_db[<<StateKey(pres.presence.muc, pres.user), "first_seen">>]
         # ToString(Seconds(now))

\* C10: for every (room, identity) of the in-memory mirror, the role,
\* affiliation, status and first_seen held in memory equal the values the
\* store holds for that (room, identity).
C10_MirrorConsistent ==
    \A muc \in (DOMAIN user_states) \cap (DOMAIN mucs) :
        \A user \in DOMAIN user_states[muc] :
            LET key == StateKey(muc, user)
                m == user_states[muc][user]
            IN  /\ sql_get(user_db, key, "role") = m.role
                /\ sql_get(user_db, key, "affiliation") = m.affiliation
                /\ sql_get(user_db, key, "status") = m.status
                /\ sql_get(user_db, key, "first_seen") = ToString(m.first_seen.int)

\* the presence processed by the step renames the anonymous occupant old,
\* whom the mirror knows, to new
Renames(old, new) ==
    /\ PresenceStep
    /\ pres'.presence.jid = None
    /\ pres'.presence.nick = old
    /\ pres'.presence.muc_nick = new
    /\ old # new
    /\ pres'.presence.muc \in DOMAIN user_states
    /\ old \in DOMAIN user_states[pres'.presence.muc]

\* C11: after a nickname-change presence for a known anonymous user, the
\* mirror and the store both hold the record under the new nick with the
\* original first_seen, and neither holds a record under the old nick.
C11_NickChangeRekeys ==
    [][\A old, new \in {"ann", "amy"} :
        Renames(old, new) =>
            LET muc == pres'.presence.muc
                first_seen == user_states[muc][old].first_seen.int
            IN  /\ new \in DOMAIN user_states'[muc]
                /\ user_states'[muc][new].first_seen.int = first_seen
                /\ old \notin DOMAIN user_states'[muc]
                /\ sql_get(user_db', StateKey(muc, new), "first_seen")
                     = ToString(first_seen)
                /\ StateKey(muc, old) \notin sql_keys(user_db')]_vars

-----------------------------------------------------------------------------
(* Claims about the post office *)

\* the rows table post_office can hold
ReminderRows ==
    {<<Join(segs), ToString(n)>> : segs \in ReminderKeys, n \in 0..Seconds(Horizon)}

\* C14: every stored reminder is eventually consumed: no row of a reminder
\* stays in the store forever.
C14_ReminderConsumed ==
    \A row \in ReminderRows : (row \in DOMAIN po_db) ~> (row \notin DOMAIN po_db)

-----------------------------------------------------------------------------
(* Claims about shutdown *)

\* the position of the first entry e in the shutdown log, 0 if there is none
LogIndex(e) ==
    IF \E k \in 1..Len(down.log) : down.log[k] = e
    THEN CHOOSE k \in 1..Len(down.log) :
            down.log[k] = e /\ \A j \in 1..(k - 1) : down.log[j] # e
    ELSE 0

\* C15: when the transport session is disconnected, every loaded plugin has
\* had its handle_shutdown awaited and then its tasks cancelled, both before
\* the disconnect; and a plugin's tasks are cancelled only after its
\* handle_shutdown.
C15_ShutdownOrdered ==
    /\ \A i \in 1..Len(plugins) :
        LogIndex(Event("cancel", plugins[i])) > 0
            => /\ LogIndex(Event("teardown", plugins[i])) > 0
               /\ LogIndex(Event("teardown", plugins[i]))
                    < LogIndex(Event("cancel", plugins[i]))
    /\ LogIndex(Event("disconnect", None)) > 0
        => \A i \in 1..Len(plugins) :
            /\ LogIndex(Event("teardown", plugins[i])) > 0
            /\ LogIndex(Event("teardown", plugins[i]))
                 < LogIndex(Event("cancel", plugins[i]))
            /\ LogIndex(Event("cancel", plugins[i]))
                 < LogIndex(Event("disconnect", None))

\* the session was disconnected at the end of a shutdown of every plugin
C15_Witness ==
    /\ down.phase = "done"
    /\ Len(down.log) = 2 * Len(plugins) + 1
    /\ down.log[Len(down.log)] = Event("disconnect", None)


-----------------------------------------------------------------------------
(* Claims about ordered queries *)

\* a step in which get_ordered_by was called
QueryStep == query'.n # query.n

\* the value of the order field in a returned field map
OrderValue(fields) == CastReal(fields["timestamp"])

\* the orders of the selected keys that do not increase in the order field
Descending(table, keys) ==
    {o \in Orders(keys) :
        \A i \in 1..(Len(o) - 1) :
            CastReal(table[<<o[i], "timestamp">>])
              >= CastReal(table[<<o[i + 1], "timestamp">>])}

\* C19: get_ordered_by with descending=true on a numeric field returns the
\* per-key field maps in non-increasing numeric order of that field, and with
\* limit=L and offset=O exactly the elements at positions O .. O+L-1 of that
\* ordering; limit=2, offset=1 skips the newest entry and returns the next two.
C19_OrderedPage ==
    [][(QueryStep /\ query'.descending /\ ~query'.raised)
       => LET r == query'.result
              L == query'.limit
              O == query'.offset
              keys == Selected(chat_history, "timestamp", query'.key_pattern,
                               query'.filter_field, query'.filter_value)
          IN  /\ \A i \in 1..(Len(r) - 1) : OrderValue(r[i]) >= OrderValue(r[i + 1])
              /\ (L # NoLimit /\ O # NoOffset)
                 => \E o \in Descending(chat_history, keys) :
                       /\ Len(r) = (IF Len(o) - O < 0 THEN 0
                                    ELSE IF Len(o) - O < L THEN Len(o) - O ELSE L)
                       /\ \A i \in 1..Len(r) :
                             r[i] = [f \in sql_fields(chat_history, o[O + i]) |->
                                        chat_history[<<o[O + i], f>>]]
              /\ (L = 2 /\ O = 1 /\ Cardinality(keys) >= 3)
                 => /\ Len(r) = 2
                    /\ \A newest \in keys :
                          (\A k \in keys \ {newest} :
                              CastReal(chat_history[<<newest, "timestamp">>])
                                > CastReal(chat_history[<<k, "timestamp">>]))
                          => \A i \in 1..2 :
                                OrderValue(r[i])
                                  < CastReal(chat_history[<<newest, "timestamp">>])]_vars

\* C19 witness: of rows stored at seconds 2, 9 and 10 the query with limit 2
\* and offset 1 returned the rows of 9 and then 2
C19_Witness ==
    /\ query.descending
    /\ query.limit = 2
    /\ query.offset = 1
    /\ Len(query.result) = 2
    /\ query.result[1]["timestamp"] = ToString(MaxStamp - 1)
    /\ query.result[2]["timestamp"] = ToString(2)
    /\ \E k \in sql_keys(chat_history) :
          chat_history[<<k, "timestamp">>] = ToString(MaxStamp)

-----------------------------------------------------------------------------
(* Claims about background tasks *)

\* a step of the event loop or of cancel_tasks
AioStep == aio' # aio

\* C21: while the plugin is not shutting down, its task set equals its
\* created and not yet done tasks: a task is in the set from its creation
\* through create_task, create_periodic_task or create_scheduled_task until
\* it completes, and its completion by success, failure or cancellation
\* removes it from the set.
C21_TaskSetTracksLive ==
    [][AioStep =>
        /\ aio'.phase = "idle" => _tasks'[TaskOwner] = DOMAIN aio'.task
        /\ aio'.last.ev = "created" => aio'.last.task \in _tasks'[TaskOwner]
        /\ aio'.last.ev = "done" => aio'.last.task \notin _tasks'[TaskOwner]]_vars

\* C21 witness: a task ended with an exception and left the set while
\* another task of the plugin is still in it
C21_Witness ==
    /\ aio.phase = "idle"
    /\ aio.last.ev = "done"
    /\ aio.last.outcome = "failure"
    /\ aio.last.task \notin _tasks[TaskOwner]
    /\ _tasks[TaskOwner] # {}
    /\ _tasks[TaskOwner] = DOMAIN aio.task

-----------------------------------------------------------------------------
(* Claims about the key/field store                                         *)

StoreStep == kv' # kv

\* what get answers for a triple in the given tables
Answer(tables, t, fallback) == sqlhandler_get(tables[t[1]], t[2], t[3], fallback)

Fallbacks == {None, "fallback"}

\* the text a value is expected to be read back as
TextForm(value) ==
    IF value = [type |-> "int", v |-> 7] THEN "7"
    ELSE IF value = [type |-> "NoneType"] THEN "None"
    ELSE "x"

\* C22: after every set or delete, a table holds at most one row per key and
\* field; get of the triple just set answers the text of the value set, get of
\* a triple just deleted (alone or with its whole key) answers the fallback,
\* and get of every other triple answers what it answered before the call.
C22_UpsertContract ==
    [][StoreStep =>
        LET made == kv'.last
            touched == {t \in Triples :
                            /\ t[1] = made.ns
                            /\ t[2] = made.key
                            /\ made.field # None => t[3] = made.field}
        IN  /\ \A ns \in DOMAIN kv'.tables : \A r1, r2 \in kv'.tables[ns] :
                    (r1.key = r2.key /\ r1.field = r2.field) => r1 = r2
            /\ \A t \in touched, fallback \in Fallbacks :
                    Answer(kv'.tables, t, fallback) =
                        IF made.op = "set" THEN TextForm(made.value) ELSE fallback
            /\ \A t \in Triples \ touched, fallback \in Fallbacks :
                    Answer(kv'.tables, t, fallback) = Answer(kv.tables, t, fallback)
    ]_vars

\* a value was set over an older, different one while the other triples of the
\* same table, the same key and the other table hold values of their own
C22_Witness ==
    /\ kv.last.op = "set"
    /\ kv.last.ns = "post_office" /\ kv.last.key = "k1" /\ kv.last.field = "a"
    /\ kv.last.value = [type |-> "int", v |-> 7]
    /\ kv.tables["post_office"] =
          {Row("k1", "a", "7"), Row("k1", "b", "x"), Row("k2", "a", "None")}
    /\ kv.tables["bot_user_states"] = {Row("k1", "a", "x")}

-----------------------------------------------------------------------------
(* Claims about presence events of known users                              *)

\* the events owed to a presence that follows the presence before, in the
\* order the handler tests the attributes
Differences(before, after) ==
    (IF after.role # before.role THEN <<"role_change">> ELSE <<>>)
    \o (IF after.affiliation # before.affiliation
        THEN <<"affiliation_change">> ELSE <<>>)
    \o (IF after.type # before.type THEN <<"status_change">> ELSE <<>>)

\* the step processes a presence of the occupant whose presence was processed
\* last, neither of the two renaming the occupant
SameOccupantAgain ==
    /\ PresenceStep
    /\ pres.n >= 1
    /\ ~pres.raised
    /\ pres.presence.nick = pres.presence.muc_nick
    /\ pres'.presence.nick = pres'.presence.muc_nick
    /\ pres'.presence.nick = pres.presence.nick
    /\ pres'.presence.muc = pres.presence.muc

\* C23: a presence of a user already known in the room fires role_change,
\* affiliation_change and status_change exactly for the attributes that
\* differ from the user's most recent previously processed presence; an
\* identical presence fires nothing.
C23_EventsForDifferences ==
    [][SameOccupantAgain
        => pres'.events = Differences(pres.presence, pres'.presence)]_vars

-----------------------------------------------------------------------------
(* Claims about the edit history of a corrected message                     *)

\* the (history key, body) pairs of the edit history of the entry under key
EditHistory(db, key) ==
    IF sql_has(db, key, "edit_history")
    THEN LET edit_history == json_loads(db[<<key, "edit_history">>])
         IN  {edit_history[k] : k \in 1..Len(edit_history)}
    ELSE {}

\* the step applies one correction, observed live, to a recorded entry
LiveCorrection ==
    /\ LedgerStep
    /\ ledger'.op = "live"
    /\ ledger'.msgs[1].replace # None
    /\ Recorded(chat_history, HistKey(ledger'.msgs[1].muc, ledger'.msgs[1].replace))

\* C24: every correction of an entry, whatever the time since the one before,
\* adds the body it replaces to the edit history and keeps every body the
\* history held, so that k corrections leave k prior bodies.
C24_EveryPriorBodyKept ==
    [][LiveCorrection =>
        LET key == HistKey(ledger'.msgs[1].muc, ledger'.msgs[1].replace)
            before == EditHistory(chat_history, key)
            after == EditHistory(chat_history', key)
        IN  /\ before \subseteq after
            /\ Cardinality(after) = Cardinality(before) + 1
            /\ \E entry \in after \ before :
                    entry[2] = chat_history[<<key, "body">>]]_vars

\* the step is a backfill that replays, once, the correction the step before
\* applied live to a recorded entry, and no other correction of that entry
ReplayedCorrection ==
    /\ LedgerStep
    /\ ledger.op = "live"
    /\ ledger.reason = "correction"
    /\ ledger'.op = "backfill"
    /\ Recorded(chat_history, HistKey(ledger.msgs[1].muc, ledger.msgs[1].replace))
    /\ Cardinality(CorrectionsOf(ledger'.msgs, ledger.msgs[1].replace)) = 1
    /\ \A i \in CorrectionsOf(ledger'.msgs, ledger.msgs[1].replace) :
            ledger'.msgs[i] = ledger.msgs[1]

\* C25: a correction applied live and applied again when the backfill replays
\* it leaves the edit history of the corrected entry as it was: no entry is
\* added and no stored prior body is replaced.
C25_ReplayedCorrectionIdempotent ==
    [][ReplayedCorrection =>
        LET key == HistKey(ledger.msgs[1].muc, ledger.msgs[1].replace)
        IN  EditHistory(chat_history', key) = EditHistory(chat_history, key)]_vars

-----------------------------------------------------------------------------
(* Claims about the fan-out of groupchat messages                           *)

\* C26: every groupchat message that passes the ignore rules and has no OOB
\* attachment is fanned out to the plugins as 'groupchat_message' after the
\* command handling, whatever its outcome was (not a command, rejected for
\* permission or cooldown, executed, or the handler raised), tagged with the
\* is_command result of the dispatcher.
C26_AlwaysFannedOut ==
    (ledger.op = "live" /\ ledger.reason = None)
        => (ledger.fanned /\ ledger.is_command = disp.is_command)

-----------------------------------------------------------------------------
(* Claims about the mirror after a restart                                  *)

\* the (room, identity) pairs the store holds a record of
Persisted(db) ==
    {ru \in {Lobby, DevRoom} \X {"ann", "big_al"} :
        StateKey(ru[1], ru[2]) \in sql_keys(db)}

\* C27: the mirror loaded from the store holds, for every persisted (room,
\* identity), the separator "_" in either or not, an entry under that room
\* and identity with the stored role, affiliation, status and first_seen;
\* and the presence processed next for a persisted identity is no room join.
C27_StateSurvivesRestart ==
    [][/\ (PresenceStep /\ pres'.event = "load") =>
            \A ru \in Persisted(user_db) :
                LET key == StateKey(ru[1], ru[2]) IN
                /\ ru[1] \in DOMAIN user_states'
                /\ ru[2] \in DOMAIN user_states'[ru[1]]
                /\ user_states'[ru[1]][ru[2]] =
                      [role |-> sql_get(user_db, key, "role"),
                       affiliation |-> sql_get(user_db, key, "affiliation"),
                       status |-> sql_get(user_db, key, "status"),
                       first_seen |-> PyStr(sql_get(user_db, key, "first_seen"))]
       /\ (/\ PresenceStep
           /\ pres.event = "load"
           /\ pres'.event = "presence"
           /\ <<pres'.presence.muc, pres'.presence.nick>> \in Persisted(user_db))
          => pres'.events # <<"room_join">>]_vars

-----------------------------------------------------------------------------
(* Claims about periodic tasks and the cancellation of tasks                *)

\* C28: a periodic task goes on invoking its unit of work and sleeping until
\* it is cancelled: it ends by cancellation only, and a task whose
\* cancellation was requested does not invoke its unit again.
C28_PeriodicEndsByCancelOnly ==
    [][AioStep =>
        /\ (aio'.last.ev = "done" /\ aio'.last.kind = "periodic")
              => aio'.last.outcome = "cancelled"
        /\ (aio'.last.ev = "invoked" /\ aio'.last.kind = "periodic")
              => ~aio.task[aio'.last.task].cancel_requested]_vars

-----------------------------------------------------------------------------
(* Claims about faults during shutdown                                      *)

\* _shutdown_or_restart has come to its end, by returning or by an exception
ShutdownOver == down.phase \in {"done", "failed"}

\* C29: a handle_shutdown that raises is isolated: once the shutdown is
\* over, the tasks of every plugin whose handle_shutdown was awaited have
\* been cancelled, that of the raising plugin included, every plugin that is
\* not skipped has had its shutdown, and the session is disconnected.
C29_ShutdownFaultIsolated ==
    ShutdownOver =>
        /\ \A i \in 1..Len(plugins) :
              ~ShutdownSkipped(plugins[i])
                  => /\ LogIndex(Event("teardown", plugins[i])) > 0
                     /\ LogIndex(Event("cancel", plugins[i])) > 0
        /\ LogIndex(Event("disconnect", None)) > 0

\* C30: cancel_tasks requests the cancellation of every task of the set that
\* is not done; once it waits it returns, when the timeout passes at the
\* latest, also when a task never finishes; and when it returns the task set
\* is empty.
C30_CancelTasksBounded ==
    /\ [][AioStep =>
            /\ aio'.last.ev = "cancel_tasks"
                  => \A id \in _tasks[TaskOwner] : aio'.task[id].cancel_requested
            /\ (aio.phase # "returned" /\ aio'.phase = "returned")
                  => _tasks'[TaskOwner] = {}]_vars
    /\ (aio.phase = "waiting") ~> (aio.phase = "returned")

\* cancel_tasks returned on the timeout while a task it asked to cancel was
\* still pending
C30_Witness ==
    /\ aio.phase = "returned"
    /\ aio.last.ev = "returned"
    /\ \E id \in DOMAIN aio.task : aio.task[id].cancel_requested
    /\ _tasks[TaskOwner] = {}

-----------------------------------------------------------------------------
(* Claims about reactions                                                   *)

\* the plugin is enabled for the room: not in its disabled_plugins list, and
\* in its whitelist when it has one
EnabledFor(muc, plugin_name) ==
    /\ plugin_name \notin MucGet(muc, "disabled_plugins", {})
    /\ HasWhitelist(muc) => plugin_name \in mucs[muc]["whitelist_plugins"]

\* C31: a reaction received from the transport is fanned out: every loaded
\* plugin that is enabled for the room has its handle_reaction invoked.
C31_ReactionFannedOut ==
    ledger.op = "reaction" =>
        \A i \in 1..Len(plugins) :
            EnabledFor(ledger.msgs[1].muc, plugins[i])
                => \E k \in 1..Len(ledger.invoked) : ledger.invoked[k] = plugins[i]

-----------------------------------------------------------------------------
(* Claims about the rules of a room                                         *)

\* the rules of room muc keep command cmd_name from running
Forbidden(muc, cmd_name) ==
    \/ cmd_name \in MucGet(muc, "disabled_commands", {})
    \/ Cmd(cmd_name).plugin \in MucGet(muc, "disabled_plugins", {})
    \/ HasWhitelist(muc) /\ Cmd(cmd_name).plugin \notin mucs[muc]["whitelist_plugins"]

\* C32: an in-room message, groupchat or whisper, that resolves to a command
\* by its name, by an alias or by an auto-run suggestion, where the room
\* disables the command, disables its plugin or has a whitelist without its
\* plugin, executes no handler, changes no last-used time and answers false.
C32_RoomRulesBlock ==
    [][DispatchStep =>
        \A muc \in DOMAIN mucs :
            (/\ disp'.entry \in {"groupchat", "whisper"}
             /\ disp'.user = UserKey(muc, "alice", None)
             /\ disp'.cmd # None
             /\ Forbidden(muc, disp'.cmd))
                => /\ ~disp'.called
                   /\ ~disp'.executed
                   /\ ~disp'.is_command
                   /\ last_used' = last_used]_vars

\* a whisper whose token is one edit away from a command was resolved by the
\* auto-run suggestion to a command of a plugin the room disables, and not run
C32_Witness ==
    /\ disp.entry = "whisper"
    /\ disp.user = UserKey(Mute, "alice", None)
    /\ disp.token = "statu"
    /\ disp.cmd = "status"
    /\ ~disp.executed
    /\ ~disp.is_command
    /\ \E user \in DOMAIN last_used["status"] : user # disp.user

-----------------------------------------------------------------------------
(* Claims about the admin filter of suggestions                             *)

\* C33: for a sender who is not an admin, no admin-only command is chosen as
\* the suggestion: none is named in a "did you mean" reply and none is gone
\* on with, or executed, through an auto-run suggestion.
C33_SuggestionAdminFiltered ==
    (Unresolved(disp) /\ disp.jid \notin admins)
        => /\ Suggested(disp) # None => ~Cmd(Suggested(disp)).admin
           /\ \A k \in 1..Len(disp.sent) :
                 disp.sent[k].body.kind = "suggestion"
                     => ~Cmd(disp.sent[k].body.command).admin
           /\ disp.executed => ~Cmd(disp.cmd).admin

\* somebody who is no admin sent a token one edit away from the admin-only
\* "restart" and far from every other command, and nothing was suggested
C33_Witness ==
    /\ Unresolved(disp)
    /\ disp.jid = "alice@x.org"
    /\ disp.token = "restrt"
    /\ Distance("restrt", 4) = 1
    /\ Registry[4].admin
    /\ Suggested(disp) = None
    /\ disp.sent = <<>>

-----------------------------------------------------------------------------
(* Claims about what a dispatch writes                                      *)

\* the user keys a last-used time is kept for, before or after the step
UsersOf(lu, name) == DOMAIN lu[name]

\* C34: a dispatch changes at most one last-used time, that of the invoked
\* command for the invoking user key, and only when the invocation passed
\* the permission, admin and cooldown checks; the times of the commands of
\* the same category, of other commands and of other users stay, and a
\* rejected invocation changes none.
C34_OneTimestampWritten ==
    [][DispatchStep =>
        /\ \A name \in CommandNames :
              \A user \in UsersOf(last_used, name) \cup UsersOf(last_used', name) :
                  LastUsedGet(last_used', name, user) # LastUsedGet(last_used, name, user)
                      => /\ name = disp'.cmd
                         /\ user = disp'.user
                         /\ disp'.called
                         /\ disp'.executed
                         /\ ~disp'.cooldown_rejected
        /\ (~disp'.called \/ disp'.cooldown_rejected) => last_used' = last_used]_vars

\* "stats" was executed for a user for whom "status", of the same category,
\* has an older last-used time, which is still there
C34_Witness ==
    /\ disp.cmd = "stats"
    /\ disp.executed
    /\ disp.user \in DOMAIN last_used["status"]
    /\ last_used["stats"][disp.user] = now
    /\ last_used["status"][disp.user] < now

-----------------------------------------------------------------------------
(* Claims about the length window of suggestions                            *)

\* nothing came of the dispatch d: no command gone on with, no reply
NoSuggestion(d) == Suggested(d) = None /\ d.cmd = None /\ d.sent = <<>>

\* C35, as the code has it: a suggestion is attempted only for a candidate of
\* 5 to 15 characters, both included; a candidate of 16 characters yields
\* none, and a candidate of exactly 15 characters one edit away from a
\* command the caller may use yields that command.
C35_WindowInclusive ==
    Unresolved(disp) =>
        /\ (Len(Chars(disp.token)) < 5 \/ Len(Chars(disp.token)) > 15)
              => NoSuggestion(disp)
        /\ disp.token = "corporate_speek" => Suggested(disp) = "corporate_speak"

\* C35, as stated: a candidate is eligible only when 5 <= L < 15, so a
\* candidate of exactly 15 characters never yields a suggestion.
C35_FifteenNeverSuggests ==
    Unresolved(disp) =>
        ((Len(Chars(disp.token)) < 5 \/ Len(Chars(disp.token)) >= 15)
            => NoSuggestion(disp))

\* a candidate of exactly 15 characters, one edit away from a command of 15
\* characters, was dispatched and the command was suggested
C35_Witness ==
    /\ Unresolved(disp)
    /\ disp.token = "corporate_speek"
    /\ Len(Chars(disp.token)) = 15
    /\ Distance("corporate_speek", 5) = 1
    /\ Suggested(disp) = "corporate_speak"

\* the time left of the cooldown, in ticks, when the test of Command.call
\* rejects
TimeLeft(lu, name, user, current_time) ==
    CooldownTicks(name) - Elapsed(lu, name, user, current_time)

\* C36: the cooldown notice of a rejected invocation states the whole seconds
\* that remain plus one, floor(cooldown - (now - effective last-used)) + 1,
\* a number between 1 and cooldown + 1.
C36_NoticeStatesFloorPlusOne ==
    [][(DispatchStep /\ disp'.cooldown_rejected)
       => /\ Len(disp'.sent) = 1
          /\ disp'.sent[1].body.kind = "cooldown"
          /\ LET shown == disp'.sent[1].body.seconds
                 left == TimeLeft(last_used', disp'.cmd, disp'.user, now')
             IN  /\ (shown - 1) * Res <= left
                 /\ left < shown * Res
                 /\ 1 <= shown
                 /\ shown <= Cmd(disp'.cmd).cooldown + 1]_vars

\* a command with half a second less than its whole cooldown left was
\* rejected and the notice states the whole cooldown
C36_Witness ==
    /\ disp.cooldown_rejected
    /\ Elapsed(last_used, disp.cmd, disp.user, now) = 1
    /\ TimeLeft(last_used, disp.cmd, disp.user, now) % Res # 0
    /\ Len(disp.sent) = 1
    /\ disp.sent[1].body.seconds = Cmd(disp.cmd).cooldown

\* no alias is the name of a command or an alias of another command
AliasesDistinct ==
    \A i \in 1..Len(Registry) : \A a \in Registry[i].aliases :
        /\ a \notin CommandNames
        /\ \A j \in 1..Len(Registry) : a \in Registry[j].aliases => j = i

\* the callers a token is tried for: muc and nick of an in-room message or
\* the jid of a private one
Callers ==
    {[entry |-> entry, muc |-> muc, nick |-> nick, jid |-> None] :
        entry \in {"groupchat", "whisper"}, muc \in {Lobby, Quiet, Mute},
        nick \in {"alice", "bob"}}
    \cup {[entry |-> "private", muc |-> None, nick |-> None, jid |-> jid] :
             jid \in {"alice@x.org", "bob@x.org"}}

\* what _handle_command does now with the token for the caller
Outcome(token, caller, raises) ==
    _handle_command(last_used, caller.entry, Body(token), caller.muc, caller.nick,
                    caller.jid, now, raises, show_command_suggestion,
                    run_command_suggestion)

\* the dispatch made by this step is the one the token makes for the caller
MadeAs(token, caller) ==
    LET r == Outcome(token, caller, disp'.raised)
    IN  /\ last_used' = r.last_used
        /\ disp' = [DispObs(r) EXCEPT !.token = disp'.token]

\* C37: provided no alias collides with a name or another alias, a token that
\* is an alias of command C is dispatched exactly as C's name is (the same
\* checks, the same cooldown state and reply, the same handler), and a token
\* that is a registered name resolves to that command.
C37_AliasDispatchedAsName ==
    [][(AliasesDistinct /\ DispatchStep)
       => /\ disp'.token \in CommandNames => disp'.cmd = disp'.token
          /\ \A i \in 1..Len(Registry) :
                disp'.token \in Registry[i].aliases
                => /\ disp'.cmd = Registry[i].name
                   /\ \A caller \in Callers :
                         (/\ caller.entry = disp'.entry
                          /\ UserKey(caller.muc, caller.nick, caller.jid) = disp'.user)
                         => MadeAs(Registry[i].name, caller)]_vars

\* alice's "st" ran the handler of status, and the aliases are distinct
C37_Witness ==
    /\ AliasesDistinct
    /\ disp.token = "st"
    /\ disp.token \in Cmd("status").aliases
    /\ disp.cmd = "status"
    /\ disp.executed

\* the stanza of the observation was dropped for its room, its sender, its
\* encryption or as the bot's own
DroppedStanza(obs) ==
    /\ obs.op = "live"
    /\ \/ obs.msgs[1].muc \notin joined_mucs
       \/ obs.msgs[1].nick \in ignored
       \/ obs.reason = "encrypted"
       \/ obs.msgs[1].nick = MucGet(obs.msgs[1].muc, "nick", bot_nick)

\* C38 as stated: a groupchat message dropped because its room is not joined,
\* its sender is ignored, it is encrypted or it is the bot's own leaves the
\* history ledger unchanged, also when it carries a replace id.
C38_DroppedLeavesLedger ==
    [][(LedgerStep /\ DroppedStanza(ledger'))
       => chat_history' = chat_history]_vars

\* the parameters call c asked for: its arguments where given, the defaults
\* of the backend that served it elsewhere
OwnParams(made) == _set_llm_parameters_enter(DefaultsOf(made.by), made.given)

\* C39 as stated: the overrides of a call are confined to the call. A call
\* that overlaps another is executed with its own parameters, and once all
\* calls have finished both backends hold their defaults.
C39_OverridesConfined ==
    /\ \A c \in 1..MaxCalls :
          llm.calls[c].phase \in {"primary", "fallback", "done"}
          => llm.calls[c].used = OwnParams(llm.calls[c])
    /\ (\A c \in 1..MaxCalls : llm.calls[c].phase \in {"idle", "done"})
          => /\ llm.openai = DefaultsOf("openai")
             /\ llm.ollama = DefaultsOf("ollama")

\* the observation is of a direct private message: its sender's bare address
\* is not a joined room
DirectMessage(obs) ==
    /\ obs.op = "private"
    /\ obs.msgs[1].muc \notin joined_mucs

\* C40: a direct private message from an identity that is not an admin never
\* reaches the dispatcher: no handler is executed, no suggestion or cooldown
\* reply is sent and no cooldown timestamp changes; a dispatch by direct
\* private message is an admin's.
C40_DirectMessageAdminsOnly ==
    [][LedgerStep
       => /\ (DirectMessage(ledger') /\ ledger'.msgs[1].muc \notin admins)
               => /\ ~ledger'.ran
                  /\ disp' = disp
                  /\ last_used' = last_used
                  /\ exec_at' = exec_at
          /\ (DispatchStep /\ disp'.entry = "private") => disp'.jid \in admins]_vars

\* alice, who is no admin, sent ".statu" from her own address and nothing was
\* dispatched
C40_Witness ==
    /\ DirectMessage(ledger)
    /\ ledger.msgs[1].muc = "alice@x.org"
    /\ "alice@x.org" \notin admins
    /\ ledger.msgs[1].text = ".statu"
    /\ ledger.reason = "not admin"
    /\ ~ledger.ran
    /\ disp = NoDispatch

====
